---- MODULE Spec2Model ----
(***************************************************************************)
(* A model of the browser-driven Instagram collector src/INS_M/ig_free.py  *)
(* of the CSV appender of src/INS/ins_apify_bio.py, of the run, poll and   *)
(* fetch pipeline of src/TT/tt_apify.py and of the CSV appender of         *)
(* src/YT/tuberfinder.py.                                                  *)
(*                                                                         *)
(* Text is a sequence of symbols.  A symbol is a TLA+ string that stands   *)
(* for one character ("a", " ", "\n"), for one non-ASCII code point        *)
(* (written "U+1F3A8"), or for a fixed run of ASCII characters that the    *)
(* program only ever handles as a whole (a JSON key such as "\"owner\"").  *)
(* Python values are tagged records: PyStr, PyNone, PyNum, PyBool, PyDict. *)
(***************************************************************************)
EXTENDS Integers, Sequences, FiniteSets, TLC

VARIABLES
    cb_bio,      \* clean_biography: the raw biography text
    cb_out,      \* clean_biography: the values returned so far, each call fed the last
    pc_text,     \* parse_count: the argument
    pc_ret,      \* parse_count: the outcome of the call, once made (a sequence of 0 or 1)
    h_pc,        \* scrape_hashtag_posts: where the call stands
    max_posts,   \* scrape_hashtag_posts: parameter
    max_scrolls, \* scrape_hashtag_posts: parameter
    post_urls,   \* scrape_hashtag_posts: the set of post URLs collected
    scrolls,     \* scrape_hashtag_posts: scroll actions completed
    h_seen,      \* scrape_hashtag_posts: the href of every anchor read so far
    urls_list,   \* scrape_hashtag_posts: the list returned
    h_goto,      \* scrape_hashtag_posts: how page.goto ended
    h_page,      \* scrape_hashtag_posts: the page the navigation ended on
    h_passes,    \* scrape_hashtag_posts: harvest passes (query_selector_all calls) made
    h_expired,   \* scrape_hashtag_posts: times the not-logged-in message was printed
    h_failed,    \* scrape_hashtag_posts: whether an error ended the loop
    eu_goto,     \* extract_username_from_post: how page.goto ends
    eu_page,     \* extract_username_from_post: the page the navigation ends on
    eu_meta,     \* extract_username_from_post: the og:description lookup
    eu_ret,      \* extract_username_from_post: the outcome, once made (0 or 1 entries)
    sp_pc,       \* scrape_profile_info: where the call stands
    sp_goto,     \* scrape_profile_info: how page.goto ended
    sp_page,     \* scrape_profile_info: the page the navigation ended on
    sp_j,        \* scrape_profile_info: what the in-page API call gave
    sp_dom,      \* scrape_profile_info: what the DOM probes of tier 3 found
    sp_tiers,    \* scrape_profile_info: the tiers run so far, each with data as it left it
    data,        \* scrape_profile_info: the record being filled and returned
    api_success, \* scrape_profile_info: the flag of tier 1
    m_pc,        \* main: where the run stands
    m_state,     \* main: whether the storage state file exists
    m_browser,   \* main: "none", "open" or "closed"
    m_post_urls, \* main: post_urls, the list scrape_hashtag_posts returned
    m_i,         \* main: how many entries of post_urls the first loop has taken
    usernames,   \* main: the set of usernames collected
    m_todo,      \* main: the usernames the second loop has not taken yet
    profile_rows,\* main: the records appended so far
    m_navs,      \* main: every page.goto of the two loops, in order
    m_expired,   \* main: times a login message was printed inside the two loops
    m_csv,       \* main: the rows handed to save_profiles_to_csv (0 or 1 entries)
    m_events,    \* main: the pauses and navigations of the two loops, in order
    csv_exists,  \* save_profiles_to_csv_append: whether the file at path exists
    csv_rows,    \* save_profiles_to_csv_append: the rows of the file, header first
    csv_calls,   \* save_profiles_to_csv_append: the number of calls made so far
    tt_pc,       \* tt_apify main: where the program stands
    tt_log,      \* tt_apify main: the requests made, in order
    tt_ret,      \* tt_apify wait_for_run: the status returned (0 or 1 entries)
    tt_exit,     \* tt_apify main: the exit code, once the program has ended
    tt_csv,      \* tt_apify append_to_csv: the output file
    yt_exists,   \* tuberfinder save_csv_append_unique: whether the file at path exists
    yt_rows,     \* tuberfinder save_csv_append_unique: the rows of the file, header first
    yt_calls     \* tuberfinder save_csv_append_unique: the number of calls made so far

cbVars == <<cb_bio, cb_out>>
pcVars == <<pc_text, pc_ret>>
hVars == <<h_pc, max_posts, max_scrolls, post_urls, scrolls, h_seen, urls_list,
           h_goto, h_page, h_passes, h_expired, h_failed>>
euVars == <<eu_goto, eu_page, eu_meta, eu_ret>>
spVars == <<sp_pc, sp_goto, sp_page, sp_j, sp_dom, sp_tiers, data, api_success>>
mVars == <<m_pc, m_state, m_browser, m_post_urls, m_i, usernames, m_todo, profile_rows,
           m_navs, m_expired, m_csv, m_events>>
csvVars == <<csv_exists, csv_rows, csv_calls>>
ttVars == <<tt_pc, tt_log, tt_ret, tt_exit, tt_csv>>
ytVars == <<yt_exists, yt_rows, yt_calls>>

vars == <<cb_bio, cb_out, pc_text, pc_ret,
          h_pc, max_posts, max_scrolls, post_urls, scrolls, h_seen, urls_list,
          h_goto, h_page, h_passes, h_expired, h_failed,
          eu_goto, eu_page, eu_meta, eu_ret,
          sp_pc, sp_goto, sp_page, sp_j, sp_dom, sp_tiers, data, api_success,
          m_pc, m_state, m_browser, m_post_urls, m_i, usernames, m_todo, profile_rows,
          m_navs, m_expired, m_csv, m_events,
          csv_exists, csv_rows, csv_calls,
          tt_pc, tt_log, tt_ret, tt_exit, tt_csv,
          yt_exists, yt_rows, yt_calls>>

\* The state of a function that is not running.
MainIdle ==
    /\ m_pc = "idle" /\ m_state = FALSE /\ m_browser = "none"
    /\ m_post_urls = <<>> /\ m_i = 0 /\ usernames = {} /\ m_todo = {}
    /\ profile_rows = <<>> /\ m_navs = <<>> /\ m_expired = 0 /\ m_csv = <<>>
    /\ m_events = <<>>

CsvIdle == csv_exists = FALSE /\ csv_rows = <<>> /\ csv_calls = 0

TtIdle ==
    /\ tt_pc = "idle" /\ tt_log = <<>> /\ tt_ret = <<>> /\ tt_exit = <<>>
    /\ tt_csv = [exists |-> FALSE, rows |-> <<>>]

YtIdle == yt_exists = FALSE /\ yt_rows = <<>> /\ yt_calls = 0

ProfileIdle ==
    /\ sp_pc = "idle" /\ sp_goto = "idle" /\ sp_page = [url |-> <<>>, html |-> <<>>]
    /\ sp_j = [raises |-> FALSE, value |-> [t |-> "none"]]
    /\ sp_dom = [raises |-> FALSE, attr |-> [t |-> "none"], cls |-> [t |-> "none"],
                 divs |-> <<>>]
    /\ sp_tiers = <<>> /\ data = <<>> /\ api_success = FALSE

PostIdle ==
    /\ eu_goto = "idle" /\ eu_page = [url |-> <<>>, html |-> <<>>]
    /\ eu_meta = [raises |-> FALSE, found |-> FALSE, content |-> [t |-> "none"]]
    /\ eu_ret = <<>>

HashtagIdle ==
    /\ h_pc = "idle" /\ max_posts = 0 /\ max_scrolls = 0 /\ post_urls = {}
    /\ scrolls = 0 /\ h_seen = {} /\ urls_list = <<>>
    /\ h_goto = "idle" /\ h_page = [url |-> <<>>, html |-> <<>>]
    /\ h_passes = 0 /\ h_expired = 0 /\ h_failed = FALSE

(***************************************************************************)
(* Python values and outcomes of a call.                                   *)
(***************************************************************************)
PyNone == [t |-> "none"]
PyStr(s) == [t |-> "str", v |-> s]
PyNum(n) == [t |-> "num", v |-> n]
PyBool(b) == [t |-> "bool", v |-> b]
PyDict(d) == [t |-> "dict", v |-> d]

\* Python truth value of a value (what `not x` negates).
Truthy(x) ==
    CASE x.t = "none" -> FALSE
      [] x.t = "str"  -> x.v # <<>>
      [] x.t = "num"  -> x.v # 0
      [] x.t = "bool" -> x.v
      [] x.t = "dict" -> DOMAIN x.v # {}
      [] OTHER        -> TRUE

\* A call either returns a value or raises.
Ret(v) == [exc |-> FALSE, val |-> v]
Raised == [exc |-> TRUE, val |-> PyNone]

(***************************************************************************)
(* Characters.                                                             *)
(***************************************************************************)
\* The symbols that stand for a code point >= 128.
NonAscii == {"U+1F3A8", "U+00E9", "U+00A0"}

\* ord(ch) < 128
IsAscii(ch) == ch \notin NonAscii

\* The characters str.strip() removes: Python's Unicode whitespace.
IsSpace(ch) == ch \in {" ", "\t", "\n", "\r", "\f", "U+00A0"}

RECURSIVE LStrip(_)
LStrip(s) ==
    IF s # <<>> /\ IsSpace(Head(s)) THEN LStrip(Tail(s)) ELSE s

RECURSIVE RStrip(_)
RStrip(s) ==
    IF s # <<>> /\ IsSpace(s[Len(s)]) THEN RStrip(SubSeq(s, 1, Len(s) - 1)) ELSE s

\* str.strip()
Strip(s) == RStrip(LStrip(s))

\* s.startswith(p)
StartsWith(s, p) == Len(s) >= Len(p) /\ SubSeq(s, 1, Len(p)) = p

\* str.replace(old, new): the occurrences of old, left to right, not overlapping.
RECURSIVE Replace(_, _, _)
Replace(s, old, new) ==
    IF s = <<>> THEN <<>>
    ELSE IF StartsWith(s, old)
         THEN new \o Replace(SubSeq(s, Len(old) + 1, Len(s)), old, new)
         ELSE <<Head(s)>> \o Replace(Tail(s), old, new)

(***************************************************************************)
(* clean_biography (ig_free.py 40-59).                                     *)
(***************************************************************************)
clean_biography(bio, ascii_only) ==
    IF ~Truthy(bio) THEN Ret(PyStr(<<>>))                    \* if not bio: return ""
    ELSE IF bio.t # "str" THEN Raised                        \* no .replace: AttributeError
    ELSE LET b1 == Replace(bio.v, <<"\\", "n">>, <<" ">>)    \* literal backslash-n
             b2 == Replace(b1, <<"\n">>, <<" ">>)            \* real newline
             b3 == Strip(b2)
         IN  Ret(PyStr(IF ascii_only THEN SelectSeq(b3, IsAscii) ELSE b3))

(***************************************************************************)
(* Specification of clean_biography: a text is normalised, and the result  *)
(* is normalised again.                                                    *)
(***************************************************************************)
MaxBioLen == 3
MaxBioCalls == 2

BioAlphabet == {"a", " ", "\n", "\\", "n", "U+1F3A8"}

RECURSIVE SeqsUpTo(_, _)
SeqsUpTo(S, n) ==
    IF n = 0 THEN {<<>>}
    ELSE LET shorter == SeqsUpTo(S, n - 1)
         IN  shorter \cup {Append(s, c) : s \in {t \in shorter : Len(t) = n - 1}, c \in S}

\* The scenario of spec.md section 8, with a literal backslash-n and with a real newline.
ArtistLiteral == <<"Artist", " ", "U+1F3A8", "\\", "n", "Love", " ", "travel">>
ArtistNewline == <<"Artist", " ", "U+1F3A8", "\n", "Love", " ", "travel">>
ArtistClean == <<"Artist", " ", " ", "Love", " ", "travel">>

BioTexts == SeqsUpTo(BioAlphabet, MaxBioLen) \cup {ArtistLiteral, ArtistNewline}

InitBio ==
    /\ cb_bio \in {PyStr(s) : s \in BioTexts}
    /\ cb_out = <<>>
    /\ pc_text = <<>> /\ pc_ret = <<>>
    /\ HashtagIdle /\ PostIdle /\ ProfileIdle /\ MainIdle /\ CsvIdle /\ TtIdle /\ YtIdle

CleanBiographyCall ==
    /\ Len(cb_out) < MaxBioCalls
    /\ LET arg == IF cb_out = <<>> THEN cb_bio ELSE cb_out[Len(cb_out)]
           r == clean_biography(arg, TRUE)
       IN  /\ ~r.exc
           /\ cb_out' = Append(cb_out, r.val)
    /\ UNCHANGED <<cb_bio, pcVars, hVars, euVars, spVars, mVars, csvVars, ttVars, ytVars>>

NextBio == CleanBiographyCall

SpecBio == InitBio /\ [][NextBio]_vars

\* C4: normalising a biography twice gives the same text as normalising it once:
\* clean_biography(clean_biography(b)) = clean_biography(b), ASCII-only.
C4_Idempotent ==
    Len(cb_out) >= 2 => cb_out[2] = cb_out[1]

\* C5: every string clean_biography returns (ASCII-only) is a string with no real
\* newline left, no leading or trailing whitespace and no code point >= 128, and the
\* "Artist <emoji>\nLove travel" scenario yields "Artist  Love travel".
C5_Normalised ==
    /\ \A i \in 1..Len(cb_out) :
          LET s == cb_out[i].v
          IN  /\ cb_out[i].t = "str"
              /\ \A k \in 1..Len(s) : s[k] # "\n" /\ IsAscii(s[k])
              /\ s # <<>> => ~IsSpace(s[1]) /\ ~IsSpace(s[Len(s)])
    /\ (Len(cb_out) >= 1 /\ cb_bio.v \in {ArtistLiteral, ArtistNewline})
          => cb_out[1].v = ArtistClean

(***************************************************************************)
(* Python floats: IEEE-754 doubles, as far as parse_count uses them.       *)
(* A natural number of any size is a sequence of limbs (digits in base     *)
(* 2^LimbBits, least significant first) or of bits (least significant      *)
(* first); a non-negative double is m * 2^e with m of at most 53           *)
(* significant bits.                                                       *)
(***************************************************************************)
MantissaBits == 53
LimbBits == 10
Base == 2^LimbBits

RECURSIVE Limbs(_)
Limbs(n) == IF n = 0 THEN <<>> ELSE <<n % Base>> \o Limbs(n \div Base)

RECURSIVE LimbsToNat(_)
LimbsToNat(b) == IF b = <<>> THEN 0 ELSE Head(b) + Base * LimbsToNat(Tail(b))

Zeros(n) == [i \in 1..n |-> 0]

\* b * k + carry, for limbs b and a small k.
RECURSIVE MulSmall(_, _, _)
MulSmall(b, k, carry) ==
    IF b = <<>> THEN Limbs(carry)
    ELSE LET t == Head(b) * k + carry
         IN  <<t % Base>> \o MulSmall(Tail(b), k, t \div Base)

\* Long division of limbs b by a small d, from the most significant limb down:
\* the quotient's limbs and the remainder.
RECURSIVE DivSmall(_, _)
DivSmall(b, d) ==
    IF b = <<>> THEN [q |-> <<>>, r |-> 0]
    ELSE LET hi == DivSmall(Tail(b), d)
             t == hi.r * Base + Head(b)
         IN  [q |-> <<t \div d>> \o hi.q, r |-> t % d]

\* The bits of a sequence of limbs.
BitsOf(b) ==
    [i \in 1..(LimbBits * Len(b)) |->
        (b[((i - 1) \div LimbBits) + 1] \div 2^((i - 1) % LimbBits)) % 2]

\* The limbs of a sequence of bits.
LimbsOf(n) ==
    LET bit(i) == IF i <= Len(n) THEN n[i] ELSE 0
        limb(j) == LET at(k) == bit(LimbBits * (j - 1) + k) * 2^(k - 1)
                   IN  at(1) + at(2) + at(3) + at(4) + at(5)
                       + at(6) + at(7) + at(8) + at(9) + at(10)
    IN  [j \in 1..((Len(n) + LimbBits - 1) \div LimbBits) |-> limb(j)]

\* The number of significant bits.
BitLen(n) ==
    IF \E i \in 1..Len(n) : n[i] = 1
    THEN CHOOSE i \in 1..Len(n) : n[i] = 1 /\ \A j \in (i + 1)..Len(n) : n[j] = 0
    ELSE 0

\* n + 1, for bits n.
Incr(n) ==
    LET j == IF \E i \in 1..Len(n) : n[i] = 0
             THEN CHOOSE i \in 1..Len(n) : n[i] = 0 /\ \A k \in 1..(i - 1) : n[k] = 1
             ELSE Len(n) + 1
    IN  [i \in 1..(IF j > Len(n) THEN j ELSE Len(n)) |->
            IF i < j THEN 0 ELSE IF i = j THEN 1 ELSE n[i]]

\* b * 2^e, where b (bits) stands for itself plus a fraction that is non-zero iff
\* sticky, rounded to the nearest double, ties to even.
RoundDouble(b, e, sticky) ==
    LET n == SubSeq(b, 1, BitLen(b))
        drop == Len(n) - MantissaBits
    IN  IF drop <= 0 THEN [m |-> n, e |-> e]
        ELSE LET low == SubSeq(n, 1, drop)
                 m == SubSeq(n, drop + 1, Len(n))
                 half == low[drop] = 1
                 rest == sticky \/ \E i \in 1..(drop - 1) : low[i] = 1
                 up == half /\ (rest \/ m[1] = 1)
             IN  [m |-> IF up THEN Incr(m) ELSE m, e |-> e + drop]

RECURSIVE Pow10(_)
Pow10(q) == IF q = 0 THEN 1 ELSE 10 * Pow10(q - 1)

\* The double nearest to p / 10^q (the value float() gives a decimal literal):
\* p is scaled by 2^(LimbBits * ScalingLimbs) so that the quotient has spare bits.
ScalingLimbs == 8
DecimalToDouble(p, q) ==
    LET d == DivSmall(Zeros(ScalingLimbs) \o Limbs(p), Pow10(q))
    IN  RoundDouble(BitsOf(d.q), 0 - LimbBits * ScalingLimbs, d.r # 0)

\* x * k for a double x and an integer k that is itself a double (1000, 1000000).
DoubleTimes(x, k) == RoundDouble(BitsOf(MulSmall(LimbsOf(x.m), k, 0)), x.e, FALSE)

\* int(x): truncation.
DoubleToInt(x) ==
    IF x.e >= 0 THEN LimbsToNat(LimbsOf(Zeros(x.e) \o x.m))
    ELSE IF 0 - x.e >= Len(x.m) THEN 0
    ELSE LimbsToNat(LimbsOf(SubSeq(x.m, 1 - x.e, Len(x.m))))

(***************************************************************************)
(* parse_count (ig_free.py 14-38).                                         *)
(***************************************************************************)
DigitValue ==
    [c \in {"0", "1", "2", "3", "4", "5", "6", "7", "8", "9"} |->
        CASE c = "0" -> 0 [] c = "1" -> 1 [] c = "2" -> 2 [] c = "3" -> 3
          [] c = "4" -> 4 [] c = "5" -> 5 [] c = "6" -> 6 [] c = "7" -> 7
          [] c = "8" -> 8 [] c = "9" -> 9]

IsDigit(ch) == ch \in DOMAIN DigitValue

\* The character class [\d\.]
IsDigitOrDot(ch) == IsDigit(ch) \/ ch = "."

\* str.lower(), on the letters of the alphabet in use.
LowerChar(ch) ==
    CASE ch = "K" -> "k" [] ch = "M" -> "m" [] ch = "X" -> "x" [] OTHER -> ch

Lower(s) == [i \in 1..Len(s) |-> LowerChar(s[i])]

\* The longest prefix of s made of [\d\.] characters.
RECURSIVE NumberPrefix(_)
NumberPrefix(s) ==
    IF s # <<>> /\ IsDigitOrDot(Head(s)) THEN <<Head(s)>> \o NumberPrefix(Tail(s))
    ELSE <<>>

\* re.search(r"[\d\.]+", s).group(0), or <<>> when there is no match.
RECURSIVE FirstNumberRun(_)
FirstNumberRun(s) ==
    IF s = <<>> THEN <<>>
    ELSE IF IsDigitOrDot(Head(s)) THEN NumberPrefix(s)
    ELSE FirstNumberRun(Tail(s))

RECURSIVE DigitsToNat(_)
DigitsToNat(s) ==
    IF s = <<>> THEN 0
    ELSE 10 * DigitsToNat(SubSeq(s, 1, Len(s) - 1)) + DigitValue[s[Len(s)]]

\* The position of the first "." of s, or 0.
DotAt(s) ==
    IF \E i \in 1..Len(s) : s[i] = "."
    THEN CHOOSE i \in 1..Len(s) : s[i] = "." /\ \A j \in 1..(i - 1) : s[j] # "."
    ELSE 0

\* float(s) for a string of digits and dots: a ValueError unless s has at least one
\* digit and at most one dot.
Float(s) ==
    LET digits == SelectSeq(s, IsDigit)
        dots == Len(s) - Len(digits)
    IN  IF digits = <<>> \/ dots > 1 THEN Raised
        ELSE Ret(DecimalToDouble(DigitsToNat(digits),
                                 IF dots = 0 THEN 0 ELSE Len(s) - DotAt(s)))

parse_count(text) ==
    IF text = <<>> THEN Ret(0)
    ELSE LET t == Replace(Replace(Lower(Strip(text)), <<",">>, <<>>), <<" ">>, <<>>)
             g1 == NumberPrefix(t)
         IN  IF g1 = <<>>
             THEN LET g0 == FirstNumberRun(t)
                      num == Float(g0)
                  IN  IF g0 = <<>> THEN Ret(0)
                      ELSE IF num.exc THEN Raised
                      ELSE Ret(DoubleToInt(num.val))
             ELSE LET num == Float(g1)
                      suffix == IF Len(t) > Len(g1) /\ t[Len(g1) + 1] \in {"k", "m"}
                                THEN t[Len(g1) + 1] ELSE "none"
                  IN  IF num.exc THEN Raised
                      ELSE Ret(DoubleToInt(
                               CASE suffix = "k" -> DoubleTimes(num.val, 1000)
                                 [] suffix = "m" -> DoubleTimes(num.val, 1000000)
                                 [] OTHER -> num.val))

(***************************************************************************)
(* Specification of parse_count: one call on a bounded text.               *)
(***************************************************************************)
MaxCountLen == 4

CountAlphabet == {"1", "4", ".", ",", "k", "m", "M", " ", "x"}

\* The examples of the docstring and of spec.md section 8.
CountExamples ==
    { <<"2", ".", "5", "k">>, <<"3", ".", "1", "m">>, <<"1", ",", "2", "3", "4">> }

CountTexts == SeqsUpTo(CountAlphabet, MaxCountLen) \cup CountExamples

InitCount ==
    /\ pc_text \in CountTexts
    /\ pc_ret = <<>>
    /\ cb_bio = PyStr(<<>>) /\ cb_out = <<>>
    /\ HashtagIdle /\ PostIdle /\ ProfileIdle /\ MainIdle /\ CsvIdle /\ TtIdle /\ YtIdle

ParseCountCall ==
    /\ pc_ret = <<>>
    /\ pc_ret' = <<parse_count(pc_text)>>
    /\ UNCHANGED <<pc_text, cbVars, hVars, euVars, spVars, mVars, csvVars, ttVars, ytVars>>

NextCount == ParseCountCall

SpecCount == InitCount /\ [][NextCount]_vars
\* C6: parse_count returns 0, and raises nothing, for every text that cannot be
\* parsed as a count: the empty text, a text with no digit, a number with two dots.
C6_UnparseableIsZero ==
    LET t == pc_text
        noDigit == \A i \in 1..Len(t) : ~IsDigit(t[i])
        twoDots == /\ \A i \in 1..Len(t) : IsDigitOrDot(t[i])
                   /\ Len(SelectSeq(t, IsDigit)) < Len(t) - 1
    IN  (pc_ret # <<>> /\ (noDigit \/ twoDots))
            => ~pc_ret[1].exc /\ pc_ret[1].val = 0

\* C7: a decimal number n followed by k yields n * 1000, followed by m yields
\* n * 1000000, thousands separators being ignored; "2.5k" yields 2500, "3.1m"
\* yields 3100000 and "1,234" yields 1234.
C7_SuffixScales ==
    LET NotComma(ch) == ch # ","
        t == SelectSeq(pc_text, NotComma)
        n == IF t = <<>> THEN <<>> ELSE SubSeq(t, 1, Len(t) - 1)
        digits == SelectSeq(n, IsDigit)
        decimal == /\ digits # <<>>
                   /\ \A i \in 1..Len(n) : IsDigitOrDot(n[i])
                   /\ Len(n) - Len(digits) <= 1
        q == IF Len(n) = Len(digits) THEN 0 ELSE Len(n) - DotAt(n)
        scale == IF t[Len(t)] = "k" THEN 1000 ELSE 1000000
    IN  /\ (pc_ret # <<>> /\ t # <<>> /\ t[Len(t)] \in {"k", "m"} /\ decimal)
              => /\ ~pc_ret[1].exc
                 /\ pc_ret[1].val * Pow10(q) = DigitsToNat(digits) * scale
        /\ (pc_ret # <<>> /\ pc_text = <<"2", ".", "5", "k">>) => pc_ret[1] = Ret(2500)
        /\ (pc_ret # <<>> /\ pc_text = <<"3", ".", "1", "m">>) => pc_ret[1] = Ret(3100000)
        /\ (pc_ret # <<>> /\ pc_text = <<"1", ",", "2", "3", "4">>) => pc_ret[1] = Ret(1234)

(***************************************************************************)
(* Pages, and the login-surface check made after a navigation.             *)
(***************************************************************************)
\* sub in s
Contains(s, sub) ==
    \E i \in 1..(Len(s) - Len(sub) + 1) : SubSeq(s, i, i + Len(sub) - 1) = sub

InstagramBase == <<"h", "t", "t", "p", "s://www.instagram.com">>

\* "accounts/login" in page.url or "/accounts/login" in html
IsLoginSurface(page) ==
    \/ Contains(page.url, <<"accounts/login">>)
    \/ Contains(page.html, <<"/", "accounts/login">>)

\* What a navigation to the hashtag page can end on.
TagPage ==
    [url |-> InstagramBase \o <<"/", "explore/tags/", "tag", "/">>,
     html |-> <<"<main>", "</main>">>]
LoginRedirect ==
    [url |-> InstagramBase \o <<"/", "accounts/login", "/", "?next=">>,
     html |-> <<"<form>", "</form>">>]
LoginWall ==
    [url |-> InstagramBase \o <<"/", "explore/tags/", "tag", "/">>,
     html |-> <<"<a href=\"", "/", "accounts/login", "/", "\">">>]
HashtagPages == {TagPage, LoginRedirect, LoginWall}

(***************************************************************************)
(* scrape_hashtag_posts (ig_free.py 62-127).                               *)
(***************************************************************************)
HrefA == <<"/p/", "a", "/">>
HrefB == <<"/p/", "b", "/">>
HrefReel == <<"/reel/", "c", "/">>

\* What a.get_attribute("href") can return.
Hrefs ==
    {PyNone, PyStr(<<>>), PyStr(HrefA), PyStr(InstagramBase \o HrefA), PyStr(HrefB),
     PyStr(HrefReel)}

\* Lines 101-102: the anchors whose href is skipped.
SkipsHref(href) == ~Truthy(href) \/ ~Contains(href.v, <<"/p/">>)

\* Lines 104-107.
PostUrl(href) ==
    IF StartsWith(href.v, <<"h", "t", "t", "p">>) THEN href.v
    ELSE InstagramBase \o href.v

\* Lines 99-109 over the first n anchors.
HarvestedUrls(anchors, n) ==
    {PostUrl(anchors[i]) : i \in {k \in 1..n : ~SkipsHref(anchors[k])}}

\* list(post_urls) as if an element could be enumerated more than once.
EnumerationsRepeating(S) == [1..Cardinality(S) -> S]

\* The orders in which list(post_urls) can enumerate a set.
Enumerations(S) ==
    {f \in [1..Cardinality(S) -> S] : \A i, j \in 1..Cardinality(S) : f[i] = f[j] => i = j}

\* Line 125 without the cut to max_posts.
UrlsListUncut(S, n) == Enumerations(S)

\* Line 125: list(post_urls)[:max_posts]
UrlsList(S, n) ==
    {SubSeq(f, 1, IF n < Len(f) THEN n ELSE Len(f)) : f \in Enumerations(S)}

MaxPosts == 2
MaxScrolls == 2
MaxAnchors == 2

InitHashtag ==
    /\ h_pc = "open"
    /\ max_posts \in 0..MaxPosts
    /\ max_scrolls \in 0..MaxScrolls
    /\ post_urls = {} /\ scrolls = 0 /\ h_seen = {} /\ urls_list = <<>>
    /\ h_goto = "idle" /\ h_page = [url |-> <<>>, html |-> <<>>]
    /\ h_passes = 0 /\ h_expired = 0 /\ h_failed = FALSE
    /\ cb_bio = PyStr(<<>>) /\ cb_out = <<>>
    /\ pc_text = <<>> /\ pc_ret = <<>>
    /\ PostIdle /\ ProfileIdle /\ MainIdle /\ CsvIdle /\ TtIdle /\ YtIdle

\* Lines 78-93 with the login check of lines 84-87 left out.
AfterOpenUnchecked(goto, page, selector) ==
    IF goto = "error" THEN "raised"
    ELSE IF selector = "timeout" THEN "done"
    ELSE IF selector = "error" THEN "raised"
    ELSE "loop"

\* Lines 78-93: where the call stands after the navigation, the login check and the
\* wait for the first post link.
AfterOpen(goto, page, selector) ==
    IF goto = "error" THEN "raised"
    ELSE IF IsLoginSurface(page) THEN "done"
    ELSE IF selector = "timeout" THEN "done"
    ELSE IF selector = "error" THEN "raised"
    ELSE "loop"

\* Lines 78-93: the navigation, the login check and the wait for the first post link.
\* A timeout of page.goto is caught and the call goes on; any other error of
\* page.goto, page.content or wait_for_selector is not caught.
HashtagOpen ==
    /\ h_pc = "open"
    /\ \E goto \in {"ok", "timeout", "error"}, page \in HashtagPages,
          selector \in {"found", "timeout", "error"} :
          /\ h_pc' = AfterOpen(goto, page, selector)
          /\ h_goto' = goto
          /\ h_page' = IF goto = "error" THEN [url |-> <<>>, html |-> <<>>] ELSE page
          /\ h_expired' = IF goto # "error" /\ IsLoginSurface(page) THEN h_expired + 1
                          ELSE h_expired
    /\ UNCHANGED <<max_posts, max_scrolls, post_urls, scrolls, h_seen, urls_list, h_passes,
                   h_failed>>
    /\ UNCHANGED <<cbVars, pcVars, euVars, spVars, mVars, csvVars, ttVars, ytVars>>

\* Lines 120-123 with the two except clauses left out: the error leaves the call.
AfterLoopErrorPropagates == "raised"

\* Lines 120-123: an error raised inside the loop is caught, by the clause for the
\* timeout or by the clause for any other Exception; the call goes on at line 125.
AfterLoopError == "finish"

\* Line 97 with a pass allowed once max_scrolls scrolls were made.
LoopConditionInclusive(held, maxPosts, scrolled, maxScrolls) ==
    held < maxPosts /\ scrolled <= maxScrolls

\* Line 97 with the bound on the scrolls left out.
LoopConditionUnbounded(held, maxPosts, scrolled, maxScrolls) == held < maxPosts

\* Line 97: while len(post_urls) < max_posts and scrolls < max_scrolls
LoopCondition(held, maxPosts, scrolled, maxScrolls) ==
    held < maxPosts /\ scrolled < maxScrolls

\* Lines 97-114: one harvest pass.  The anchors are read in order; an error while
\* reading anchor number failAt (0: none) ends the loop with what was added before.
HashtagHarvest ==
    /\ h_pc = "loop"
    /\ LoopCondition(Cardinality(post_urls), max_posts, scrolls, max_scrolls)
    /\ \E anchors \in SeqsUpTo(Hrefs, MaxAnchors), failAt \in 0..MaxAnchors :
          /\ failAt <= Len(anchors)
          /\ LET n == IF failAt = 0 THEN Len(anchors) ELSE failAt - 1
             IN  /\ post_urls' = post_urls \cup HarvestedUrls(anchors, n)
                 /\ h_seen' = h_seen \cup {anchors[i] : i \in 1..n}
                 /\ h_passes' = h_passes + 1
                 /\ h_pc' = IF failAt # 0 THEN AfterLoopError
                            ELSE IF Cardinality(post_urls') >= max_posts THEN "finish"
                            ELSE "scroll"
                 /\ h_failed' = (h_failed \/ failAt # 0)
    /\ UNCHANGED <<max_posts, max_scrolls, scrolls, urls_list, h_goto, h_page, h_expired>>
    /\ UNCHANGED <<cbVars, pcVars, euVars, spVars, mVars, csvVars, ttVars, ytVars>>

\* Line 97: the loop condition fails.
HashtagLoopExit ==
    /\ h_pc = "loop"
    /\ ~LoopCondition(Cardinality(post_urls), max_posts, scrolls, max_scrolls)
    /\ h_pc' = "finish"
    /\ UNCHANGED <<max_posts, max_scrolls, post_urls, scrolls, h_seen, urls_list,
                   h_goto, h_page, h_passes, h_expired, h_failed>>
    /\ UNCHANGED <<cbVars, pcVars, euVars, spVars, mVars, csvVars, ttVars, ytVars>>

\* Lines 116-118: scrolls after the scroll action; an error of page.evaluate comes
\* before the count.
AfterScroll(n, outcome) == IF outcome = "evaluate_raises" THEN n ELSE n + 1

\* Lines 116-118: scroll, count, pause.  An error of page.evaluate leaves scrolls as
\* it is, an error of the pause comes after the increment; both end the loop.
HashtagScroll ==
    /\ h_pc = "scroll"
    /\ \E outcome \in {"ok", "evaluate_raises", "pause_raises"} :
          /\ scrolls' = AfterScroll(scrolls, outcome)
          /\ h_pc' = IF outcome = "ok" THEN "loop" ELSE AfterLoopError
          /\ h_failed' = (h_failed \/ outcome # "ok")
    /\ UNCHANGED <<max_posts, max_scrolls, post_urls, h_seen, urls_list,
                   h_goto, h_page, h_passes, h_expired>>
    /\ UNCHANGED <<cbVars, pcVars, euVars, spVars, mVars, csvVars, ttVars, ytVars>>

\* Lines 125-127.
HashtagFinish ==
    /\ h_pc = "finish"
    /\ urls_list' \in UrlsList(post_urls, max_posts)
    /\ h_pc' = "done"
    /\ UNCHANGED <<max_posts, max_scrolls, post_urls, scrolls, h_seen,
                   h_goto, h_page, h_passes, h_expired, h_failed>>
    /\ UNCHANGED <<cbVars, pcVars, euVars, spVars, mVars, csvVars, ttVars, ytVars>>

NextHashtag ==
    \/ HashtagOpen
    \/ HashtagHarvest
    \/ HashtagLoopExit
    \/ HashtagScroll
    \/ HashtagFinish

SpecHashtag == InitHashtag /\ [][NextHashtag]_vars

\* The call keeps running: every wait of the page has a timeout.
SpecHashtagFair == SpecHashtag /\ WF_vars(NextHashtag)

\* C1: the list scrape_hashtag_posts returns holds no URL twice, holds at most
\* max_posts entries, and holds only absolutised hrefs of anchors that were read
\* and contain "/p/".
C1_UrlsList ==
    h_pc = "done" =>
        /\ \A i, j \in 1..Len(urls_list) : urls_list[i] = urls_list[j] => i = j
        /\ Len(urls_list) <= max_posts
        /\ \A i \in 1..Len(urls_list) :
              \E href \in h_seen :
                  /\ href.t = "str" /\ Contains(href.v, <<"/p/">>)
                  /\ urls_list[i] = IF StartsWith(href.v, <<"h", "t", "t", "p">>)
                                    THEN href.v
                                    ELSE InstagramBase \o href.v

\* C1 witness: a run that collected two posts in one pass with max_posts = 1 and
\* returned one of them, the absolutised form of a relative href.
C1_Witness ==
    /\ h_pc = "done" /\ max_posts = 1 /\ Cardinality(post_urls) = 2
    /\ urls_list = <<InstagramBase \o HrefA>>
    /\ PyStr(HrefA) \in h_seen /\ PyStr(InstagramBase \o HrefA) \notin h_seen

(***************************************************************************)
(* Regular expressions over page text.  In page text a quote, a colon, a   *)
(* brace, a comma, a parenthesis, a digit and a whitespace character are   *)
(* each a symbol of their own, and a maximal run of other characters (a    *)
(* word) is one symbol, so a pattern's literal "owner" is the three        *)
(* symbols quote, owner, quote.                                            *)
(***************************************************************************)
Min(S) == CHOOSE x \in S : \A y \in S : x <= y
Max(S) == CHOOSE x \in S : \A y \in S : x >= y

NoMatch == [ok |-> FALSE, group |-> <<>>, end |-> 0]
Match(g, e) == [ok |-> TRUE, group |-> g, end |-> e]

\* The literal lit stands at position i of s.
At(s, i, lit) ==
    i >= 1 /\ i + Len(lit) - 1 <= Len(s) /\ SubSeq(s, i, i + Len(lit) - 1) = lit

Quoted(word) == <<"\"", word, "\"">>

\* \s* from position i: the first position that holds no whitespace.
SkipSpace(s, i) == Min({j \in i..Len(s) : ~IsSpace(s[j])} \cup {Len(s) + 1})

\* [^c]* from position i, for c in stops: the first position that holds a stop.
RunEnd(s, i, stops) == Min({j \in i..Len(s) : s[j] \in stops} \cup {Len(s) + 1})

\* "key"\s*:\s* at position k: the position after it, or 0.
AfterKey(s, k, key) ==
    IF ~At(s, k, Quoted(key)) THEN 0
    ELSE LET c == SkipSpace(s, k + 3)
         IN  IF c <= Len(s) /\ s[c] = ":" THEN SkipSpace(s, c + 1) ELSE 0

\* "([^"]+)" (minLen 1) or "([^"]*)" (minLen 0) at position p.
StringAt(s, p, minLen) ==
    IF p < 1 \/ p > Len(s) THEN NoMatch
    ELSE IF s[p] # "\"" THEN NoMatch
    ELSE LET e == RunEnd(s, p + 1, {"\""})
         IN  IF e > Len(s) \/ e - (p + 1) < minLen THEN NoMatch
             ELSE Match(SubSeq(s, p + 1, e - 1), e + 1)

\* re.search(r"\(@([^)]+)\)", content)   (line 161)
SearchHandle(content) ==
    LET m(i) == IF ~At(content, i, <<"(", "@">>) THEN NoMatch
                ELSE LET e == RunEnd(content, i + 2, {")"})
                     IN  IF e > Len(content) \/ e = i + 2 THEN NoMatch
                         ELSE Match(SubSeq(content, i + 2, e - 1), e + 1)
        hits == {i \in 1..Len(content) : m(i).ok}
    IN  IF hits = {} THEN NoMatch ELSE m(Min(hits))

\* "username"\s*:\s*"([^"]+)" at position k.
UsernameAt(s, k) == StringAt(s, AfterKey(s, k, "username"), 1)

\* re.search(r'"owner"\s*:\s*{.*?"username"\s*:\s*"([^"]+)"', html, re.DOTALL)
\* (lines 167-171): .*? takes the first "username" after the brace.
SearchOwnerUsername(html) ==
    LET brace(i) == LET b == AfterKey(html, i, "owner")
                    IN  IF b >= 1 /\ b <= Len(html) /\ html[b] = "{" THEN b + 1 ELSE 0
        m(i) == IF brace(i) = 0 THEN NoMatch
                ELSE LET ks == {k \in brace(i)..Len(html) : UsernameAt(html, k).ok}
                     IN  IF ks = {} THEN NoMatch ELSE UsernameAt(html, Min(ks))
        hits == {i \in 1..Len(html) : m(i).ok}
    IN  IF hits = {} THEN NoMatch ELSE m(Min(hits))

\* re.search(r'"username"\s*:\s*"([^"]+)"\s*,\s*"is_verified"', html, re.DOTALL)
\* (lines 177-181)
SearchUsernameVerified(html) ==
    LET m(k) == LET u == UsernameAt(html, k)
                    c == SkipSpace(html, u.end)
                IN  IF u.ok /\ c <= Len(html) /\ html[c] = ","
                       /\ At(html, SkipSpace(html, c + 1), Quoted("is_verified"))
                    THEN u ELSE NoMatch
        hits == {k \in 1..Len(html) : m(k).ok}
    IN  IF hits = {} THEN NoMatch ELSE m(Min(hits))

(***************************************************************************)
(* extract_username_from_post (ig_free.py 132-194).                        *)
(***************************************************************************)
\* Lines 158-163: strategy 1, the og:description metadata.
Strategy1(meta) ==
    IF ~meta.found THEN <<>>
    ELSE LET content == Strip(IF Truthy(meta.content) THEN meta.content.v ELSE <<>>)
             m == SearchHandle(content)
         IN  IF m.ok THEN Strip(m.group) ELSE <<>>

\* Strategy 2 run also when the username held has a space in it.
Strategy2IfSpaced(username, html) ==
    IF username # <<>> /\ ~Contains(username, <<" ">>) THEN username
    ELSE LET m == SearchOwnerUsername(html)
         IN  IF m.ok THEN Strip(m.group) ELSE username

\* Strategy 2 without its `if not username` guard.
Strategy2Unguarded(username, html) ==
    LET m == SearchOwnerUsername(html)
    IN  IF m.ok THEN Strip(m.group) ELSE username

\* Lines 166-173: strategy 2, the owner object of the embedded JSON.
Strategy2(username, html) ==
    IF username # <<>> THEN username
    ELSE LET m == SearchOwnerUsername(html)
         IN  IF m.ok THEN Strip(m.group) ELSE username

\* Lines 176-183: strategy 3, "username" next to "is_verified".
Strategy3(username, html) ==
    IF username # <<>> THEN username
    ELSE LET m == SearchUsernameVerified(html)
         IN  IF m.ok THEN Strip(m.group) ELSE username

\* The call: a timeout of page.goto is caught, another error of it is not; the
\* login surface returns ""; an error of the metadata lookup is caught (line 192).
extract_username_from_post(goto, page, meta) ==
    IF goto = "error" THEN Raised
    ELSE IF goto = "timeout" THEN Ret(PyStr(<<>>))
    ELSE IF IsLoginSurface(page) THEN Ret(PyStr(<<>>))
    ELSE IF meta.raises THEN Ret(PyStr(<<>>))
    ELSE Ret(PyStr(Strategy3(Strategy2(Strategy1(meta), page.html), page.html)))

(***************************************************************************)
(* Specification of extract_username_from_post: one call on a bounded page.*)
(***************************************************************************)
MaxPostFrags == 3

RECURSIVE Flatten(_)
Flatten(ss) == IF ss = <<>> THEN <<>> ELSE Head(ss) \o Flatten(Tail(ss))

FragOwner == <<"\"", "owner", "\"", " ", ":", "{">>
FragUsername(v) == <<"\"", "username", "\"", ":", "\"">> \o v \o <<"\"">>
FragVerified == <<",", "\"", "is_verified", "\"">>
FragId == <<"\"", "id", "\"", ":", "\"", "1", "\"", ",">>
FragLogin == <<"<a href=", "/", "accounts/login", ">">>

PostFragments ==
    {FragOwner, FragUsername(<<"bob">>), FragUsername(<<"eve">>), FragUsername(<<" ">>),
     FragVerified, FragId, FragLogin}

PostHtmls == {Flatten(fs) : fs \in SeqsUpTo(PostFragments, MaxPostFrags)}

PostPageUrl == InstagramBase \o <<"/p/", "a", "/">>

\* The og:description lookup: it raises, finds no element, or finds one whose
\* content attribute is missing or a text.
MetaContents ==
    { <<>>,
      <<"eve", " ", "(", "@", "eve", ")", " ", "on", " ", "Instagram">>,
      <<"(", "@", " ", "eve", " ", ")">>,
      <<"(", "@", " ", ")">>,
      <<"(", "@", ")", " ", "(", "@", "al", " ", "ice", ")">>,
      <<"@", "eve">> }

Metas ==
    {[raises |-> TRUE, found |-> FALSE, content |-> PyNone],
     [raises |-> FALSE, found |-> FALSE, content |-> PyNone],
     [raises |-> FALSE, found |-> TRUE, content |-> PyNone]}
    \cup {[raises |-> FALSE, found |-> TRUE, content |-> PyStr(c)] : c \in MetaContents}

InitPost ==
    /\ eu_goto \in {"ok", "timeout", "error"}
    /\ eu_page \in {[url |-> PostPageUrl, html |-> h] : h \in PostHtmls}
                   \cup {LoginRedirect}
    /\ eu_meta \in Metas
    /\ eu_goto # "ok" => eu_page = LoginRedirect /\ ~eu_meta.found /\ ~eu_meta.raises
    /\ IsLoginSurface(eu_page) => ~eu_meta.found /\ ~eu_meta.raises
    /\ eu_ret = <<>>
    /\ cb_bio = PyStr(<<>>) /\ cb_out = <<>>
    /\ pc_text = <<>> /\ pc_ret = <<>>
    /\ HashtagIdle /\ ProfileIdle /\ MainIdle /\ CsvIdle /\ TtIdle /\ YtIdle

ExtractUsernameCall ==
    /\ eu_ret = <<>>
    /\ eu_ret' = <<extract_username_from_post(eu_goto, eu_page, eu_meta)>>
    /\ UNCHANGED <<eu_goto, eu_page, eu_meta, cbVars, pcVars, hVars, spVars, mVars, csvVars, ttVars, ytVars>>

NextPost == ExtractUsernameCall

SpecPost == InitPost /\ [][NextPost]_vars

\* The value of strategy 1 on the page of the call: whether its pattern matches the
\* trimmed content attribute, and the trimmed text in the parentheses.
PostStrategy1 ==
    LET c == Strip(IF Truthy(eu_meta.content) THEN eu_meta.content.v ELSE <<>>)
        m == SearchHandle(c)
    IN  [ran |-> eu_ret # <<>> /\ eu_goto = "ok" /\ ~IsLoginSurface(eu_page)
                 /\ ~eu_meta.raises,
         ok |-> eu_meta.found /\ m.ok,
         value |-> Strip(m.group)]

\* C2 as stated: whenever strategy 1 matches, its value is the username returned,
\* whatever strategies 2 and 3 would match.
C2_Strategy1Wins ==
    (PostStrategy1.ran /\ PostStrategy1.ok)
        => eu_ret[1] = Ret(PyStr(PostStrategy1.value))

\* C2 as amended: whenever strategy 1 matches and the text in the parentheses is
\* not blank, that text, trimmed, is the username returned, whatever strategies 2
\* and 3 would match.
C2_Strategy1WinsNonBlank ==
    (PostStrategy1.ran /\ PostStrategy1.ok /\ PostStrategy1.value # <<>>)
        => eu_ret[1] = Ret(PyStr(PostStrategy1.value))

\* C2 witness: strategy 1 yields a handle while strategy 2 and strategy 3 both match
\* another one in the page text.
C2_Witness ==
    /\ PostStrategy1.ran /\ PostStrategy1.ok /\ PostStrategy1.value = <<"eve">>
    /\ SearchOwnerUsername(eu_page.html).ok
    /\ SearchOwnerUsername(eu_page.html).group = <<"bob">>
    /\ SearchUsernameVerified(eu_page.html).ok
    /\ SearchUsernameVerified(eu_page.html).group = <<"bob">>
    /\ eu_ret = <<Ret(PyStr(<<"eve">>))>>

(***************************************************************************)
(* scrape_profile_info (ig_free.py 198-357).                               *)
(***************************************************************************)
EmptyDict == PyDict(<<>>)

\* d.get(key, default), for a dict d.
Get(d, key, default) == IF key \in DOMAIN d.v THEN d.v[key] ELSE default

DigitChars == <<"0", "1", "2", "3", "4", "5", "6", "7", "8", "9">>

RECURSIVE NatToDigits(_)
NatToDigits(n) ==
    IF n < 10 THEN <<DigitChars[n + 1]>>
    ELSE NatToDigits(n \div 10) \o <<DigitChars[(n % 10) + 1]>>

\* str(x)
Str(x) ==
    CASE x.t = "num"  -> NatToDigits(x.v)
      [] x.t = "str"  -> x.v
      [] x.t = "bool" -> IF x.v THEN <<"True">> ELSE <<"False">>
      [] x.t = "none" -> <<"None">>
      [] OTHER        -> <<"{...}">>

\* Lines 214-220.
InitialData(username) ==
    [username |-> PyStr(username),
     profile_url |-> PyStr(InstagramBase \o <<"/">> \o username \o <<"/">>),
     postsCount |-> PyStr(<<>>),
     followersCount |-> PyStr(<<>>),
     biography |-> PyStr(<<>>)]

\* Line 235.
IsNotFound(html) ==
    \/ Contains(html, <<"Sorry, this page isn't available">>)
    \/ Contains(html, <<"Page Not Found">>)

\* Lines 282-285 with the API biography stored as it came.
Tier1BiographyRaw(d, biography) ==
    [data |-> [d EXCEPT !.biography = biography], api_success |-> TRUE]

\* Lines 282-285: the biography of the API response.  clean_biography raises on a
\* value that is true and no string; the error is caught at line 294, after the
\* counts were stored and before api_success is set.
Tier1Biography(d, biography) ==
    IF biography.t = "none" THEN [data |-> d, api_success |-> TRUE]
    ELSE LET cb == clean_biography(biography, TRUE)
         IN  IF cb.exc THEN [data |-> d, api_success |-> FALSE]
             ELSE [data |-> [d EXCEPT !.biography = cb.val], api_success |-> TRUE]

\* Lines 241-295: tier 1.  Every error is caught at line 294.
Tier1(d, j) ==
    LET fail == [data |-> d, api_success |-> FALSE]
    IN  IF j.raises THEN fail
        ELSE IF j.value.t # "dict" THEN fail
        ELSE IF Truthy(Get(j.value, "__error", PyNone)) THEN fail
        ELSE LET dd == Get(j.value, "data", EmptyDict)
                 user == Get(dd, "user", EmptyDict)
                 ep == Get(user, "edge_owner_to_timeline_media", EmptyDict)
                 ef == Get(user, "edge_followed_by", EmptyDict)
                 posts_count == Get(ep, "count", PyNone)
                 followers_count == Get(ef, "count", PyNone)
                 biography == Get(user, "biography", PyStr(<<>>))
                 d1 == IF posts_count.t # "none"
                       THEN [d EXCEPT !.postsCount = PyStr(Str(posts_count))] ELSE d
                 d2 == IF followers_count.t # "none"
                       THEN [d1 EXCEPT !.followersCount = PyStr(Str(followers_count))]
                       ELSE d1
             IN  IF dd.t # "dict" THEN fail             \* no .get: AttributeError
                 ELSE IF ~Truthy(user) THEN fail        \* no user object
                 ELSE IF user.t # "dict" THEN fail
                 ELSE IF ep.t # "dict" \/ ef.t # "dict" THEN fail
                 ELSE Tier1Biography(d2, biography)

\* "key"\s*:\s*{[^}]*"count"\s*:\s*(\d+) (lines 301-305, 310-314): [^}]* is greedy,
\* so the last "count" before the first closing brace is taken.
SearchEdgeCount(html, key) ==
    LET digits(k) == LET p == AfterKey(html, k, "count")
                         e == Min({x \in p..Len(html) : ~IsDigit(html[x])}
                                  \cup {Len(html) + 1})
                     IN  IF p = 0 \/ e = p THEN NoMatch
                         ELSE Match(SubSeq(html, p, e - 1), e)
        m(i) == LET b == AfterKey(html, i, key)
                IN  IF b < 1 \/ b > Len(html) THEN NoMatch
                    ELSE IF html[b] # "{" THEN NoMatch
                    ELSE LET shut == RunEnd(html, b + 1, {"}"})
                             ks == {k \in (b + 1)..(shut - 1) : digits(k).ok}
                         IN  IF ks = {} THEN NoMatch ELSE digits(Max(ks))
        hits == {i \in 1..Len(html) : m(i).ok}
    IN  IF hits = {} THEN NoMatch ELSE m(Min(hits))

\* "biography"\s*:\s*"([^"]*)"\s*,\s*"blocked_by_viewer" (lines 331-335)
SearchBiography(html) ==
    LET m(k) == LET u == StringAt(html, AfterKey(html, k, "biography"), 0)
                    c == SkipSpace(html, u.end)
                IN  IF u.ok /\ c <= Len(html) /\ html[c] = ","
                       /\ At(html, SkipSpace(html, c + 1), Quoted("blocked_by_viewer"))
                    THEN u ELSE NoMatch
        hits == {k \in 1..Len(html) : m(k).ok}
    IN  IF hits = {} THEN NoMatch ELSE m(Min(hits))

\* Lines 301-307 without the test that postsCount is still empty.
Tier2PostsUnguarded(d, html) ==
    LET m == SearchEdgeCount(html, "edge_owner_to_timeline_media")
    IN  IF m.ok THEN [d EXCEPT !.postsCount = PyStr(m.group)] ELSE d

\* Lines 301-307 with the pattern of lines 310-314 (the follower count).
Tier2PostsWrongKey(d, html) ==
    LET m == SearchEdgeCount(html, "edge_followed_by")
    IN  IF m.ok /\ ~Truthy(d.postsCount) THEN [d EXCEPT !.postsCount = PyStr(m.group)]
        ELSE d

\* Lines 301-307.
Tier2Posts(d, html) ==
    LET m == SearchEdgeCount(html, "edge_owner_to_timeline_media")
    IN  IF m.ok /\ ~Truthy(d.postsCount) THEN [d EXCEPT !.postsCount = PyStr(m.group)]
        ELSE d

\* Lines 310-316.
Tier2Followers(d, html) ==
    LET m == SearchEdgeCount(html, "edge_followed_by")
    IN  IF m.ok /\ ~Truthy(d.followersCount)
        THEN [d EXCEPT !.followersCount = PyStr(m.group)]
        ELSE d

\* Lines 329-340.
Tier2Biography(d, html) ==
    LET m == SearchBiography(html)
    IN  IF ~Truthy(d.biography) /\ m.ok
        THEN [d EXCEPT !.biography = clean_biography(PyStr(m.group), TRUE).val]
        ELSE d

\* Lines 298-340: tier 2, run only when tier 1 did not set api_success.
Tier2(d, success, html) ==
    IF success THEN d
    ELSE Tier2Biography(Tier2Followers(Tier2Posts(d, html), html), html)

\* An element the DOM holds, with its inner text.
Element(text) == [t |-> "elem", text |-> text]

\* Lines 343-355: tier 3.  Any error of a probe is caught and leaves data as it is.
Tier3(d, dom) ==
    IF Truthy(d.biography) THEN d
    ELSE IF dom.raises THEN d
    ELSE LET e1 == dom.attr
             e2 == IF ~Truthy(e1) THEN dom.cls ELSE e1
             e3 == IF ~Truthy(e2)
                   THEN (IF Len(dom.divs) >= 3 THEN dom.divs[Len(dom.divs)] ELSE e2)
                   ELSE e2
         IN  IF Truthy(e3)
             THEN [d EXCEPT !.biography = clean_biography(PyStr(e3.text), TRUE).val]
             ELSE d

(***************************************************************************)
(* Specification of scrape_profile_info: one call, tier by tier.           *)
(***************************************************************************)
MaxProfileFrags == 2

FragPosts842 ==
    Quoted("edge_owner_to_timeline_media") \o <<":", "{">>
        \o Quoted("count") \o <<":", "8", "4", "2">>
FragFollowers15 ==
    Quoted("edge_followed_by") \o <<" ", ":", " ", "{">> \o Quoted("id") \o <<":", "1", ",">>
        \o Quoted("count") \o <<":", " ", "1", "5">>
FragPostsShut == Quoted("edge_owner_to_timeline_media") \o <<":", "{", "}">>
FragCount7 == <<",">> \o Quoted("count") \o <<":", "7">>
FragBiography ==
    Quoted("biography") \o <<":", "\"", "Hi", "\\", "n", "U+1F3A8", "\"", ",">>
        \o Quoted("blocked_by_viewer")
FragNotFound == <<"<h2>", "Sorry, this page isn't available", "</h2>">>
FragPageNotFound == <<"<title>", "Page Not Found", "</title>">>

ProfileFragments ==
    {FragPosts842, FragFollowers15, FragPostsShut, FragCount7, FragBiography,
     FragLogin, FragNotFound, FragPageNotFound}

ProfileUsername == <<"bob">>

ProfilePages ==
    {[url |-> InstagramBase \o <<"/">> \o ProfileUsername \o <<"/">>, html |-> Flatten(fs)] :
        fs \in SeqsUpTo(ProfileFragments, MaxProfileFrags)}
    \cup {LoginRedirect}

NoPage == [url |-> <<>>, html |-> <<>>]

\* What page.evaluate can give: an error, or the JSON of the response.
None1 == <<>>
UserParts(key, values) == {None1} \cup {[k \in {key} |-> v] : v \in values}

ApiUsers ==
    {PyDict(p @@ f @@ b) :
        p \in UserParts("edge_owner_to_timeline_media",
                        {PyNone, PyDict([count |-> PyNone]), PyDict([count |-> PyNum(7)])}),
        f \in UserParts("edge_followed_by", {PyDict([count |-> PyNum(0)])}),
        b \in UserParts("biography",
                        {PyNone, PyStr(<<>>), PyStr(<<"Yo", "\n", "U+00E9">>), PyNum(0),
                         PyNum(5)})}

ApiValues ==
    {PyNone,
     PyDict([__error |-> PyBool(TRUE), status |-> PyNum(401)]),
     EmptyDict,
     PyDict([data |-> PyNone]),
     PyDict([data |-> PyDict([user |-> PyNone])]),
     PyDict([data |-> PyDict([user |-> PyStr(<<"x">>)])])}
    \cup {PyDict([data |-> PyDict([user |-> u])]) : u \in ApiUsers}

ApiOutcomes ==
    {[raises |-> TRUE, value |-> PyNone]} \cup {[raises |-> FALSE, value |-> v] : v \in ApiValues}

NoDom == [raises |-> FALSE, attr |-> PyNone, cls |-> PyNone, divs |-> <<>>]

\* What the three DOM probes can find.
Doms ==
    {[NoDom EXCEPT !.raises = TRUE]}
    \cup {[raises |-> FALSE, attr |-> a, cls |-> c, divs |-> ds] :
            a \in {PyNone, Element(<<>>), Element(<<"Bio", " ", "A">>)},
            c \in {PyNone, Element(<<"Bio", " ", "B">>)},
            ds \in {<<Element(<<"x">>), Element(<<"y">>)>>,
                    <<Element(<<"x">>), Element(<<"y">>), Element(<<"Bio", " ", "C">>)>>}}

InitProfile ==
    /\ sp_pc = "goto"
    /\ sp_goto = "idle" /\ sp_page = NoPage
    /\ sp_j = [raises |-> FALSE, value |-> PyNone]
    /\ sp_dom = NoDom
    /\ sp_tiers = <<>>
    /\ data = InitialData(ProfileUsername)
    /\ api_success = FALSE
    /\ cb_bio = PyStr(<<>>) /\ cb_out = <<>>
    /\ pc_text = <<>> /\ pc_ret = <<>>
    /\ HashtagIdle /\ PostIdle /\ MainIdle /\ CsvIdle /\ TtIdle /\ YtIdle

\* Lines 223-237 with the not-found check of lines 234-237 left out.
AfterGotoFoundOnly(goto, page) ==
    IF goto = "error" THEN "raised"
    ELSE IF goto = "timeout" THEN "done"
    ELSE IF IsLoginSurface(page) THEN "done"
    ELSE "tier1"

\* Lines 223-237: where the call stands after the navigation: an error that is not
\* a timeout leaves the call, a timeout, a login surface and a not-found page
\* return data as it is, any other page goes on to tier 1.
AfterGoto(goto, page) ==
    IF goto = "error" THEN "raised"
    ELSE IF goto = "timeout" THEN "done"
    ELSE IF IsLoginSurface(page) \/ IsNotFound(page.html) THEN "done"
    ELSE "tier1"

\* Lines 223-237: the navigation and the two page checks.  A timeout returns data as
\* it is; any other error of page.goto or page.content is not caught.
ProfileGoto ==
    /\ sp_pc = "goto"
    /\ \E goto \in {"ok", "timeout", "error"}, page \in ProfilePages :
          /\ goto # "ok" => page = LoginRedirect
          /\ sp_goto' = goto
          /\ sp_page' = IF goto = "ok" THEN page ELSE NoPage
          /\ sp_pc' = AfterGoto(goto, page)
    /\ UNCHANGED <<sp_j, sp_dom, sp_tiers, data, api_success>>
    /\ UNCHANGED <<cbVars, pcVars, hVars, euVars, mVars, csvVars, ttVars, ytVars>>

\* Lines 240-295.
ProfileTier1 ==
    /\ sp_pc = "tier1"
    /\ \E j \in ApiOutcomes :
          LET r == Tier1(data, j)
          IN  /\ sp_j' = j
              /\ data' = r.data
              /\ api_success' = r.api_success
              /\ sp_tiers' = Append(sp_tiers, [tier |-> 1, data |-> r.data])
    /\ sp_pc' = "tier2"
    /\ UNCHANGED <<sp_goto, sp_page, sp_dom>>
    /\ UNCHANGED <<cbVars, pcVars, hVars, euVars, mVars, csvVars, ttVars, ytVars>>

\* Lines 298-340.
ProfileTier2 ==
    /\ sp_pc = "tier2"
    /\ data' = Tier2(data, api_success, sp_page.html)
    /\ sp_tiers' = IF api_success THEN sp_tiers
                   ELSE Append(sp_tiers, [tier |-> 2, data |-> data'])
    /\ sp_pc' = "tier3"
    /\ UNCHANGED <<sp_goto, sp_page, sp_j, sp_dom, api_success>>
    /\ UNCHANGED <<cbVars, pcVars, hVars, euVars, mVars, csvVars, ttVars, ytVars>>

\* Lines 343-357.
ProfileTier3 ==
    /\ sp_pc = "tier3"
    /\ \E dom \in Doms :
          /\ Truthy(data.biography) => dom = [NoDom EXCEPT !.raises = TRUE]
          /\ sp_dom' = IF Truthy(data.biography) THEN NoDom ELSE dom
          /\ data' = Tier3(data, dom)
    /\ sp_tiers' = IF Truthy(data.biography) THEN sp_tiers
                   ELSE Append(sp_tiers, [tier |-> 3, data |-> data'])
    /\ sp_pc' = "done"
    /\ UNCHANGED <<sp_goto, sp_page, sp_j, api_success>>
    /\ UNCHANGED <<cbVars, pcVars, hVars, euVars, mVars, csvVars, ttVars, ytVars>>

NextProfile ==
    \/ ProfileGoto
    \/ ProfileTier1
    \/ ProfileTier2
    \/ ProfileTier3

SpecProfile == InitProfile /\ [][NextProfile]_vars

(***************************************************************************)
(* Properties of scrape_profile_info.                                      *)
(***************************************************************************)
\* The tiers ran: the navigation ended on a page that is neither a login surface
\* nor a not-found page.
ProfileReturned == sp_pc = "done" /\ sp_tiers # <<>>

\* What the two count patterns capture in the text of the page.
PostsInText == SearchEdgeCount(sp_page.html, "edge_owner_to_timeline_media")
FollowersInText == SearchEdgeCount(sp_page.html, "edge_followed_by")

\* C3: whatever the navigation, the tier-1 response, the text of the page and the
\* DOM were, the record has a biography, and it is a string (possibly empty), never
\* null and never absent.
C3_BiographyIsString ==
    sp_pc # "raised" => ("biography" \in DOMAIN data /\ data.biography.t = "str")

\* C3 witness: the API gave a user object whose biography is a number, no later tier
\* found a biography, and the record returned has the empty string.
C3_Witness ==
    /\ sp_pc = "done"
    /\ sp_j = [raises |-> FALSE,
               value |-> PyDict([data |-> PyDict([user |->
                            PyDict([biography |-> PyNum(5)])])])]
    /\ Len(sp_tiers) = 3
    /\ data.biography = PyStr(<<>>)

\* C8 as stated: on a page that is neither a login surface nor a not-found page,
\* when tier 1 did not succeed and the text holds the post-count pattern, the
\* returned postsCount is the digits of the pattern; likewise followersCount.
C8_Tier2FillsCounts ==
    (ProfileReturned /\ ~api_success) =>
        /\ PostsInText.ok => data.postsCount = PyStr(PostsInText.group)
        /\ FollowersInText.ok => data.followersCount = PyStr(FollowersInText.group)

\* C8 as amended: on a page that is neither a login surface nor a not-found page,
\* when tier 1 did not succeed and left the field empty, and the text holds the
\* pattern of the field, the returned field is the digits the pattern captures
\* (those of the last "count" before the first closing brace).
C8_Tier2FillsEmptyCounts ==
    (ProfileReturned /\ ~api_success) =>
        /\ (PostsInText.ok /\ ~Truthy(sp_tiers[1].data.postsCount))
              => data.postsCount = PyStr(PostsInText.group)
        /\ (FollowersInText.ok /\ ~Truthy(sp_tiers[1].data.followersCount))
              => data.followersCount = PyStr(FollowersInText.group)

\* C8 witness: the API call failed, the text holds the post count 842, and the
\* record returned has postsCount "842".
C8_Witness ==
    /\ ProfileReturned /\ ~api_success
    /\ sp_j.raises
    /\ sp_page.html = FragPosts842
    /\ sp_tiers[1].data.postsCount = PyStr(<<>>)
    /\ data.postsCount = PyStr(<<"8", "4", "2">>)

\* C22: when the navigation succeeds and the page is a login surface or a
\* not-found page, the call returns at once: the record has the username and the
\* profile URL it started with and empty postsCount, followersCount and biography,
\* and no API call, no text scan and no DOM probe was made.
C22_LoginOrNotFoundReturnsEmpty ==
    sp_goto = "ok" /\ (IsLoginSurface(sp_page) \/ IsNotFound(sp_page.html)) =>
        /\ sp_pc = "done"
        /\ sp_tiers = <<>> /\ sp_j = [raises |-> FALSE, value |-> PyNone]
        /\ sp_dom = NoDom /\ ~api_success
        /\ data.username = PyStr(ProfileUsername)
        /\ data.profile_url = PyStr(InstagramBase \o <<"/">> \o ProfileUsername \o <<"/">>)
        /\ data.postsCount = PyStr(<<>>) /\ data.followersCount = PyStr(<<>>)
        /\ data.biography = PyStr(<<>>)

\* A not-found page that also carries both counts and a biography in its text.
C22_Witness ==
    /\ sp_pc = "done" /\ sp_goto = "ok" /\ sp_tiers = <<>>
    /\ ~IsLoginSurface(sp_page) /\ IsNotFound(sp_page.html)
    /\ PostsInText.ok /\ data.postsCount = PyStr(<<>>)

\* C23: tier 3 runs only when the biography is empty after tiers 1 and 2, and when
\* its probes raise nothing the biography is the cleaned text of the first locator,
\* in the order attribute match, class match, last of at least three header divs,
\* whose element exists and has a non-empty text; an element with an empty text
\* does not stop the later locators.
C23_FirstNonEmptyText ==
    (sp_pc = "done" /\ sp_tiers # <<>> /\ sp_tiers[Len(sp_tiers)].tier = 3) =>
        /\ Len(sp_tiers) > 1 /\ ~Truthy(sp_tiers[Len(sp_tiers) - 1].data.biography)
        /\ ~sp_dom.raises =>
              LET texts == <<sp_dom.attr, sp_dom.cls>>
                           \o (IF Len(sp_dom.divs) >= 3
                               THEN <<sp_dom.divs[Len(sp_dom.divs)]>> ELSE <<>>)
                  found == {i \in 1..Len(texts) : texts[i].t = "elem" /\ texts[i].text # <<>>}
              IN  data.biography =
                     IF found = {} THEN PyStr(<<>>)
                     ELSE clean_biography(PyStr(texts[Min(found)].text), TRUE).val

\* C9: when tier 1 succeeds but its response lacks the post count or the follower
\* count, the missing field is filled from the pattern in the text of the page
\* whenever the text holds it.
C9_MissingFallsThrough ==
    (ProfileReturned /\ api_success) =>
        /\ (PostsInText.ok /\ ~Truthy(sp_tiers[1].data.postsCount))
              => data.postsCount = PyStr(PostsInText.group)
        /\ (FollowersInText.ok /\ ~Truthy(sp_tiers[1].data.followersCount))
              => data.followersCount = PyStr(FollowersInText.group)

\* C10: a postsCount or followersCount that a tier has set is never overwritten by
\* a later tier: the record carries, for each of the two, the value of the first
\* tier that produced one, also when tier 1 set it and then failed part-way.
C10_FirstTierWins ==
    \A f \in {"postsCount", "followersCount"} :
        \A k \in 1..Len(sp_tiers) :
            Truthy(sp_tiers[k].data[f]) => data[f] = sp_tiers[k].data[f]

\* C10 witness: tier 1 stored the post count 7 and then failed on the biography,
\* tier 2 ran on a text that holds the post count 842, and the record returned has
\* postsCount "7".
C10_Witness ==
    /\ ProfileReturned /\ ~api_success
    /\ Len(sp_tiers) >= 2 /\ sp_tiers[2].tier = 2
    /\ sp_tiers[1].data.postsCount = PyStr(<<"7">>)
    /\ PostsInText.ok /\ PostsInText.group = <<"8", "4", "2">>
    /\ data.postsCount = PyStr(<<"7">>)

(***************************************************************************)
(* main (ig_free.py 420-484): the run, stage by stage.                     *)
(***************************************************************************)
\* Whole symbols made of letters only.
LetterSymbols ==
    {"a", "b", "c", "d", "e", "f", "g", "h", "i", "j", "k", "l", "m", "n", "o", "p", "q",
     "r", "s", "t", "u", "v", "w", "x", "y", "z", "A", "B", "C", "D", "E", "F", "G", "H",
     "I", "J", "K", "L", "M", "N", "O", "P", "Q", "R", "S", "T", "U", "V", "W", "X", "Y",
     "Z", "bob", "Bob", "eve", "al", "ice"}

\* [A-Za-z0-9._]
IsHandleSymbol(c) == c \in LetterSymbols \/ IsDigit(c) \/ c \in {".", "_"}

\* re.match(r"^[A-Za-z0-9._]+$", username) (line 461); $ also matches before a
\* newline that ends the text.
MatchesHandle(u) ==
    LET core == IF u # <<>> /\ u[Len(u)] = "\n" THEN SubSeq(u, 1, Len(u) - 1) ELSE u
    IN  core # <<>> /\ \A i \in 1..Len(core) : IsHandleSymbol(core[i])

\* Lines 460-462 with the username put in lower case before it joins the set.
CollectFolded(names, username) ==
    LET lower(c) == IF c = "Bob" THEN "bob" ELSE c
    IN  IF Truthy(username) /\ MatchesHandle(username.v)
        THEN names \cup {[i \in 1..Len(username.v) |-> lower(username.v[i])]}
        ELSE names

\* Lines 460-462 with the allow-list test left out.
CollectAny(names, username) ==
    IF Truthy(username) THEN names \cup {username.v} ELSE names

\* Lines 460-462: the username a post gave joins the set when it is not empty and
\* passes the allow-list.
Collect(names, username) ==
    IF Truthy(username) /\ MatchesHandle(username.v) THEN names \cup {username.v}
    ELSE names

\* scrape_profile_info as one call (lines 198-357).
scrape_profile_info(username, goto, page, j, dom) ==
    IF goto = "error" THEN Raised
    ELSE IF goto = "timeout" THEN Ret(InitialData(username))
    ELSE IF IsLoginSurface(page) \/ IsNotFound(page.html) THEN Ret(InitialData(username))
    ELSE LET t1 == Tier1(InitialData(username), j)
         IN  Ret(Tier3(Tier2(t1.data, t1.api_success, page.html), dom))

\* Lines 150-152, 230-232: the login message of a stage is printed.
PrintsExpired(goto, page) == goto = "ok" /\ IsLoginSurface(page)

\* What opening a post can meet: a page, a timeout, or another error of page.goto.
NoMeta == [raises |-> FALSE, found |-> FALSE, content |-> PyNone]
PostPage(fs) == [url |-> PostPageUrl, html |-> Flatten(fs)]
PostVisits ==
    {[goto |-> "ok", page |-> pg, meta |-> NoMeta] :
        pg \in {PostPage(<<FragOwner, FragUsername(<<"bob">>)>>),
                PostPage(<<FragUsername(<<"eve">>), FragVerified>>),
                PostPage(<<FragOwner, FragUsername(<<"Bob">>)>>),
                PostPage(<<FragOwner, FragUsername(<<"b", "-", "b">>)>>),
                PostPage(<<FragOwner, FragUsername(<<"eve", "\n">>)>>),
                PostPage(<<FragId>>),
                LoginRedirect}}
    \cup {[goto |-> g, page |-> NoPage, meta |-> NoMeta] : g \in {"timeout", "error"}}

\* What opening a profile can meet.
ApiBob ==
    [raises |-> FALSE,
     value |-> PyDict([data |-> PyDict([user |-> PyDict(
                  [edge_owner_to_timeline_media |-> PyDict([count |-> PyNum(7)]),
                   biography |-> PyStr(<<"Yo">>)])])])]
ProfilePage(fs) == [url |-> InstagramBase \o <<"/", "profile", "/">>, html |-> Flatten(fs)]
ProfileVisits ==
    {[goto |-> "ok", page |-> ProfilePage(<<FragFollowers15>>), j |-> ApiBob, dom |-> NoDom],
     [goto |-> "ok", page |-> LoginRedirect, j |-> ApiBob, dom |-> NoDom],
     [goto |-> "timeout", page |-> NoPage, j |-> ApiBob, dom |-> NoDom],
     [goto |-> "error", page |-> NoPage, j |-> ApiBob, dom |-> NoDom]}

\* One page.goto of a loop of main, with the outcome of the call that made it.
Nav(kind, target, visit, r) ==
    [kind |-> kind, target |-> target, goto |-> visit.goto,
     login |-> PrintsExpired(visit.goto, visit.page), ret |-> r]

InitMain ==
    /\ m_pc = "start"
    /\ m_state \in BOOLEAN
    /\ m_browser = "none"
    /\ m_post_urls = <<>> /\ m_i = 0 /\ usernames = {} /\ m_todo = {}
    /\ profile_rows = <<>> /\ m_navs = <<>> /\ m_expired = 0 /\ m_csv = <<>>
    /\ m_events = <<>>
    /\ h_pc = "idle"
    /\ max_posts \in 0..MaxPosts
    /\ max_scrolls \in 0..MaxScrolls
    /\ post_urls = {} /\ scrolls = 0 /\ h_seen = {} /\ urls_list = <<>>
    /\ h_goto = "idle" /\ h_page = NoPage /\ h_passes = 0 /\ h_expired = 0
    /\ h_failed = FALSE
    /\ cb_bio = PyStr(<<>>) /\ cb_out = <<>>
    /\ pc_text = <<>> /\ pc_ret = <<>>
    /\ PostIdle /\ ProfileIdle /\ CsvIdle /\ TtIdle /\ YtIdle

\* Lines 424-439 with the test of the state file left out.
AfterStateCheckSkipped(exists, launch) ==
    IF launch = "ok" THEN "discover" ELSE "crashed"

\* Lines 424-439: a missing state file ends the run before the browser is launched;
\* an error of the launch or of new_context is not caught.
AfterStateCheck(exists, launch) ==
    IF ~exists THEN "exit"
    ELSE IF launch = "ok" THEN "discover" ELSE "crashed"

\* Line 474 with a username whose navigation timed out left in the set.
RestRetry(todo, username, goto) ==
    IF goto = "timeout" THEN todo ELSE todo \ {username}

\* Line 474: the for loop takes each element of the set once.
Rest(todo, username, goto) == todo \ {username}

\* Lines 457-461 with the pause of lines 458-459 left out.
ResolveEventsUnpaused(events) == Append(events, "post")

\* Lines 457-461: each turn of the first loop sleeps two seconds and then opens the
\* post.
ResolveEvents(events) == events \o <<"sleep", "post">>

\* Lines 474-478: each turn of the second loop opens the profile and then sleeps two
\* seconds; an error of the scrape leaves the loop before the pause.
EnrichEvents(events, exc) ==
    IF exc THEN Append(events, "profile") ELSE events \o <<"profile", "sleep">>

\* Lines 421-439.
MainStart ==
    /\ m_pc = "start"
    /\ \E launch \in {"ok", "error"} :
          /\ m_pc' = AfterStateCheck(m_state, launch)
          /\ m_browser' = IF m_pc' = "discover" THEN "open" ELSE "none"
          /\ h_pc' = IF m_pc' = "discover" THEN "open" ELSE h_pc
    /\ UNCHANGED <<m_state, m_post_urls, m_i, usernames, m_todo, profile_rows, m_navs,
                   m_expired, m_csv, m_events>>
    /\ UNCHANGED <<max_posts, max_scrolls, post_urls, scrolls, h_seen, urls_list,
                   h_goto, h_page, h_passes, h_expired, h_failed>>
    /\ UNCHANGED <<cbVars, pcVars, euVars, spVars, csvVars, ttVars, ytVars>>

\* Lines 442-453: scrape_hashtag_posts has returned or raised, and its locals are
\* gone.  An empty list closes the browser and ends the run.
MainDiscovered ==
    /\ m_pc = "discover"
    /\ h_pc \in {"done", "raised"}
    /\ h_pc' = "returned"
    /\ m_post_urls' = IF h_pc = "done" THEN urls_list ELSE <<>>
    /\ m_pc' = IF h_pc = "raised" THEN "crashed"
               ELSE IF urls_list = <<>> THEN "exit"
               ELSE "resolve"
    /\ m_browser' = IF m_pc' = "resolve" THEN "open" ELSE "closed"
    /\ post_urls' = {} /\ scrolls' = 0 /\ h_seen' = {} /\ urls_list' = <<>>
    /\ h_passes' = 0 /\ h_failed' = FALSE
    /\ UNCHANGED <<m_state, m_i, usernames, m_todo, profile_rows, m_navs, m_expired,
                   m_csv, m_events>>
    /\ UNCHANGED <<max_posts, max_scrolls, h_goto, h_page, h_expired>>
    /\ UNCHANGED <<cbVars, pcVars, euVars, spVars, csvVars, ttVars, ytVars>>

\* Lines 457-462: one turn of the first loop.  An error extract_username_from_post
\* does not catch leaves main.
MainResolve ==
    /\ m_pc = "resolve"
    /\ m_i < Len(m_post_urls)
    /\ \E visit \in PostVisits :
          LET r == extract_username_from_post(visit.goto, visit.page, visit.meta)
          IN  /\ m_navs' = Append(m_navs, Nav("post", m_post_urls[m_i + 1], visit, r))
              /\ m_expired' = IF PrintsExpired(visit.goto, visit.page)
                              THEN m_expired + 1 ELSE m_expired
              /\ m_pc' = IF r.exc THEN "crashed" ELSE "resolve"
              /\ m_browser' = IF r.exc THEN "closed" ELSE m_browser
              /\ m_i' = IF r.exc THEN m_i ELSE m_i + 1
              /\ usernames' = IF r.exc THEN usernames ELSE Collect(usernames, r.val)
              /\ m_events' = ResolveEvents(m_events)
    /\ UNCHANGED <<m_state, m_post_urls, m_todo, profile_rows, m_csv>>
    /\ UNCHANGED <<cbVars, pcVars, hVars, euVars, spVars, csvVars, ttVars, ytVars>>

\* Lines 464-473: the first loop is over.  No username closes the browser and ends
\* the run.
MainResolved ==
    /\ m_pc = "resolve"
    /\ m_i = Len(m_post_urls)
    /\ m_pc' = IF usernames = {} THEN "exit" ELSE "enrich"
    /\ m_browser' = IF usernames = {} THEN "closed" ELSE m_browser
    /\ m_todo' = usernames
    /\ UNCHANGED <<m_state, m_post_urls, m_i, usernames, profile_rows, m_navs, m_expired,
                   m_csv, m_events>>
    /\ UNCHANGED <<cbVars, pcVars, hVars, euVars, spVars, csvVars, ttVars, ytVars>>

\* Lines 474-476: one turn of the second loop, on any username not taken yet.
MainEnrich ==
    /\ m_pc = "enrich"
    /\ m_todo # {}
    /\ \E username \in m_todo, visit \in ProfileVisits :
          LET r == scrape_profile_info(username, visit.goto, visit.page, visit.j,
                                       visit.dom)
          IN  /\ m_navs' = Append(m_navs, Nav("profile", username, visit, r))
              /\ m_expired' = IF PrintsExpired(visit.goto, visit.page)
                              THEN m_expired + 1 ELSE m_expired
              /\ m_pc' = IF r.exc THEN "crashed" ELSE "enrich"
              /\ m_browser' = IF r.exc THEN "closed" ELSE m_browser
              /\ m_todo' = IF r.exc THEN m_todo ELSE Rest(m_todo, username, visit.goto)
              /\ profile_rows' = IF r.exc THEN profile_rows
                                 ELSE Append(profile_rows, r.val)
              /\ m_events' = EnrichEvents(m_events, r.exc)
    /\ UNCHANGED <<m_state, m_post_urls, m_i, usernames, m_csv>>
    /\ UNCHANGED <<cbVars, pcVars, hVars, euVars, spVars, csvVars, ttVars, ytVars>>

\* Line 479: the second loop is over.
MainEnriched ==
    /\ m_pc = "enrich"
    /\ m_todo = {}
    /\ m_pc' = "save"
    /\ m_browser' = "closed"
    /\ UNCHANGED <<m_state, m_post_urls, m_i, usernames, m_todo, profile_rows, m_navs,
                   m_expired, m_csv, m_events>>
    /\ UNCHANGED <<cbVars, pcVars, hVars, euVars, spVars, csvVars, ttVars, ytVars>>

\* Lines 482-483: the records are handed to save_profiles_to_csv.
MainSave ==
    /\ m_pc = "save"
    /\ m_csv' = <<profile_rows>>
    /\ m_pc' = "done"
    /\ UNCHANGED <<m_state, m_browser, m_post_urls, m_i, usernames, m_todo, profile_rows,
                   m_navs, m_expired, m_events>>
    /\ UNCHANGED <<cbVars, pcVars, hVars, euVars, spVars, csvVars, ttVars, ytVars>>

NextMain ==
    \/ MainStart
    \/ HashtagOpen
    \/ HashtagHarvest
    \/ HashtagLoopExit
    \/ HashtagScroll
    \/ HashtagFinish
    \/ MainDiscovered
    \/ MainResolve
    \/ MainResolved
    \/ MainEnrich
    \/ MainEnriched
    \/ MainSave

SpecMain == InitMain /\ [][NextMain]_vars

(***************************************************************************)
(* Properties of the run.                                                  *)
(***************************************************************************)
\* The navigation to the hashtag page ended on a login surface.
HashtagLogin == h_goto \in {"ok", "timeout"} /\ IsLoginSurface(h_page)

\* C11: when the navigation to the hashtag page ends on a login surface,
\* scrape_hashtag_posts returns the empty list with no harvest pass and no scroll,
\* the run ends with no post and no profile navigated, and the not-logged-in
\* message is printed exactly once.
C11_LoginAtHashtag ==
    HashtagLogin =>
        /\ h_pc \in {"done", "returned"}
        /\ urls_list = <<>> /\ h_passes = 0 /\ scrolls = 0 /\ post_urls = {}
        /\ m_pc \in {"discover", "exit"}
        /\ m_post_urls = <<>> /\ m_navs = <<>> /\ profile_rows = <<>>
        /\ h_expired + m_expired = 1

\* C11 witness: the hashtag page showed a login link, and the run has ended with
\* the browser closed.
C11_Witness ==
    /\ h_goto = "ok" /\ h_page = LoginWall
    /\ m_pc = "exit" /\ m_browser = "closed"
    /\ h_expired = 1 /\ m_navs = <<>>

\* C12: once a navigation of the first loop (posts) or of the second loop (profiles)
\* ends on a login surface, no further navigation of that loop is made.
C12_LoginAbortsStage ==
    \A k \in 1..Len(m_navs) :
        m_navs[k].login =>
            \A l \in (k + 1)..Len(m_navs) : m_navs[l].kind # m_navs[k].kind

\* C13: no outcome of opening a post or a profile ends the run: after every
\* navigation of the two loops the run goes on, so it is never left by an error
\* once a loop has navigated.
C13_NoItemAbortsRun == ~(m_pc = "crashed" /\ m_navs # <<>>)

\* C14: a timeout of page.goto is a zero result in every stage, with no extraction
\* on that page: scrape_hashtag_posts makes no harvest pass and returns no URL,
\* extract_username_from_post returns "", scrape_profile_info returns the record
\* with empty counts and biography.
C14_TimeoutIsZeroResult ==
    /\ h_goto = "timeout" =>
          /\ h_pc \in {"done", "returned"}
          /\ h_passes = 0 /\ urls_list = <<>> /\ m_post_urls = <<>>
    /\ \A k \in 1..Len(m_navs) :
          m_navs[k].goto = "timeout" =>
              m_navs[k].ret = IF m_navs[k].kind = "post" THEN Ret(PyStr(<<>>))
                              ELSE Ret(InitialData(m_navs[k].target))

\* The navigations of the second loop, in order.
ProfileNavs == SelectSeq(m_navs, LAMBDA n : n.kind = "profile")

\* C15: the records hold each validated handle of the first loop exactly once: no
\* two records have the same username, every record is of a collected handle, the
\* records stand in the order in which the handles were enriched, and the rows
\* saved are one per collected handle.
C15_OneRecordPerHandle ==
    /\ \A i, j \in 1..Len(profile_rows) :
          profile_rows[i].username = profile_rows[j].username => i = j
    /\ \A i \in 1..Len(profile_rows) :
          /\ profile_rows[i].username.v \in usernames
          /\ i <= Len(ProfileNavs)
          /\ profile_rows[i].username = PyStr(ProfileNavs[i].target)
    /\ m_pc \in {"save", "done"} =>
          {profile_rows[i].username.v : i \in 1..Len(profile_rows)} = usernames
    /\ m_csv # <<>> => m_csv[1] = profile_rows

\* C15 witness: two posts gave the same handle, and the run saved one record.
C15_Witness ==
    /\ m_pc = "done"
    /\ Len(m_navs) = 3
    /\ m_navs[1].ret = Ret(PyStr(<<"bob">>)) /\ m_navs[2].ret = Ret(PyStr(<<"bob">>))
    /\ Len(m_csv[1]) = 1 /\ m_csv[1][1].username = PyStr(<<"bob">>)

\* C16: no post URL is navigated twice by the first loop and no handle twice by the
\* second; a navigation that failed or timed out is not made again.
C16_NavigatedOnce ==
    \A k, l \in 1..Len(m_navs) :
        (m_navs[k].kind = m_navs[l].kind /\ m_navs[k].target = m_navs[l].target)
            => k = l

\* C16 witness: the first post timed out, the second was opened next, and a profile
\* navigation timed out before the run saved.
C16_Witness ==
    /\ m_pc = "done"
    /\ Len(m_navs) = 3
    /\ m_navs[1].kind = "post" /\ m_navs[1].goto = "timeout"
    /\ m_navs[2].kind = "post" /\ m_navs[2].target # m_navs[1].target
    /\ m_navs[3].kind = "profile" /\ m_navs[3].goto = "timeout"

\* C17: every handle that reaches the second loop is non-empty and made only of
\* letters, digits, periods and underscores; a username that fails the allow-list
\* never joins the set.
C17_HandlesAllowed ==
    \A u \in usernames \cup m_todo \cup {ProfileNavs[k].target : k \in 1..Len(ProfileNavs)} :
        u # <<>> /\ \A i \in 1..Len(u) : IsHandleSymbol(u[i])

\* C17 witness: the first post gave "b-b", the second gave a valid handle, and the
\* only profile opened is that of the second.
C17_Witness ==
    /\ m_pc = "done"
    /\ Len(m_navs) = 3
    /\ m_navs[1].ret = Ret(PyStr(<<"b", "-", "b">>))
    /\ m_navs[2].ret = Ret(PyStr(<<"bob">>))
    /\ m_navs[3].kind = "profile" /\ m_navs[3].target = <<"bob">>
    /\ usernames = {<<"bob">>}

\* C18: the loop of scrape_hashtag_posts ends.  The call always returns or raises,
\* scrolls never passes max_scrolls, a scroll is made only while fewer than
\* max_posts URLs are held and fewer than max_scrolls scrolls were made, and no
\* harvest pass is made once either bound is met.
C18_LoopTerminates ==
    /\ <>(h_pc \in {"done", "raised"})
    /\ [](scrolls <= max_scrolls)
    /\ [][(scrolls' # scrolls \/ h_passes' # h_passes)
             => (Cardinality(post_urls) < max_posts /\ scrolls < max_scrolls)]_vars
    /\ [][scrolls' # scrolls => (scrolls' = scrolls + 1 /\ h_pc = "scroll")]_vars

\* C18 witness: the page never gave an anchor with a post link, and the call
\* returned after max_scrolls scrolls with nothing collected.
C18_Witness ==
    /\ h_pc = "done" /\ h_goto = "ok"
    /\ max_posts >= 1 /\ max_scrolls >= 1
    /\ scrolls = max_scrolls /\ h_passes = max_scrolls
    /\ post_urls = {} /\ urls_list = <<>>

\* C19: when the storage state file is missing, the run ends before any stage: no
\* browser is launched, no page is navigated and nothing is saved.
C19_MissingStateFile ==
    ~m_state =>
        /\ m_pc \in {"start", "exit"}
        /\ m_browser = "none"
        /\ h_pc = "idle" /\ h_goto = "idle" /\ m_navs = <<>>
        /\ m_csv = <<>>

\* C19 witness: the run has ended on the missing state file.
C19_Witness == ~m_state /\ m_pc = "exit" /\ m_browser = "none" /\ m_csv = <<>>

\* C28: a harvest pass is made only while fewer than max_scrolls scrolls were
\* made, so there are never more passes than max_scrolls; once max_scrolls scrolls
\* were made no anchor is read and no URL is added; and with max_scrolls = 0 no
\* pass is made and the list returned is empty.
C28_HarvestBeforeScroll ==
    /\ [](h_passes <= max_scrolls)
    /\ [](max_scrolls = 0 => post_urls = {} /\ h_seen = {} /\ urls_list = <<>>)
    /\ [][h_passes' # h_passes => (h_pc = "loop" /\ scrolls < max_scrolls)]_vars
    /\ [][scrolls = max_scrolls => (post_urls' = post_urls /\ h_seen' = h_seen
                                     /\ h_passes' = h_passes)]_vars

\* C28 witness: the first post link was found on the page, max_scrolls is 0, and
\* the loop was left without a pass although max_posts is not met.
C28_Witness ==
    /\ h_pc = "finish" /\ h_goto = "ok" /\ max_scrolls = 0 /\ max_posts > 0
    /\ h_passes = 0 /\ post_urls = {}

\* C29: once an error was raised in a harvest pass or in a scroll, the call does
\* not leave through the error: it makes no further pass and no further scroll,
\* keeps the URLs it held, and returns them cut to max_posts.
C29_LoopErrorKeepsUrls ==
    /\ [](h_failed => h_pc \in {"finish", "done"})
    /\ [](h_failed /\ h_pc = "done" =>
            /\ urls_list \in UrlsList(post_urls, max_posts)
            /\ Len(urls_list) = Min({Cardinality(post_urls), max_posts}))
    /\ [][h_failed => (post_urls' = post_urls /\ scrolls' = scrolls
                        /\ h_passes' = h_passes /\ h_failed')]_vars

\* C29 witness: the second pass raised after it had read one anchor; the URL of
\* the first pass and the URL read before the error are both returned.
C29_Witness ==
    /\ h_pc = "done" /\ h_failed /\ h_passes = 2 /\ scrolls = 1
    /\ Cardinality(post_urls) = 2 /\ Len(urls_list) = 2

\* C24: in the order of the pauses and navigations of main, a pause lies between
\* any two post navigations and between any two profile navigations, so no two
\* navigations of one loop are adjacent; each navigation of m_navs is one entry.
C24_PauseBetweenNavigations ==
    /\ \A i, j \in 1..Len(m_events) :
          (i < j /\ m_events[i] = m_events[j] /\ m_events[i] \in {"post", "profile"})
              => \E k \in (i + 1)..(j - 1) : m_events[k] = "sleep"
    /\ Len(SelectSeq(m_events, LAMBDA e : e # "sleep")) = Len(m_navs)
    /\ \A k \in 1..Len(m_navs) :
          SelectSeq(m_events, LAMBDA e : e # "sleep")[k] = m_navs[k].kind

\* C24 witness: two posts were opened and then two profiles.
C24_Witness ==
    /\ m_pc = "done"
    /\ m_events = <<"sleep", "post", "sleep", "post", "profile", "sleep", "profile", "sleep">>

\* C25: the set of handles is the set of the strings the post navigations
\* returned that pass the allow-list, compared letter by letter with case; every
\* handle of the set gets at most one profile navigation, and a run that reaches
\* the save has one profile navigation and one record for each.
C25_CaseSensitiveHandles ==
    /\ usernames = {m_navs[k].ret.val.v :
                      k \in {n \in 1..Len(m_navs) :
                               /\ m_navs[n].kind = "post" /\ ~m_navs[n].ret.exc
                               /\ Truthy(m_navs[n].ret.val)
                               /\ MatchesHandle(m_navs[n].ret.val.v)}}
    /\ \A i, j \in 1..Len(ProfileNavs) :
          ProfileNavs[i].target = ProfileNavs[j].target => i = j
    /\ m_pc \in {"save", "done"} =>
          /\ {ProfileNavs[k].target : k \in 1..Len(ProfileNavs)} = usernames
          /\ Len(profile_rows) = Cardinality(usernames)
          /\ {profile_rows[k].username.v : k \in 1..Len(profile_rows)} = usernames

\* C25 witness: one post gave "bob", the other "Bob", and the run wrote two records.
C25_Witness ==
    /\ m_pc = "done" /\ Len(m_navs) = 4
    /\ m_navs[1].ret = Ret(PyStr(<<"bob">>)) /\ m_navs[2].ret = Ret(PyStr(<<"Bob">>))
    /\ usernames = {<<"bob">>, <<"Bob">>}
    /\ Len(profile_rows) = 2 /\ profile_rows[1].username # profile_rows[2].username

\* C27: when the strategies ran, the first of them that yields a non-empty value
\* decides the result, valid or not: a non-empty value of strategy 1 that fails
\* the allow-list is returned and the post adds no handle to the set, whatever
\* strategies 2 and 3 would match; a non-empty value of strategy 2 is returned
\* whatever strategy 3 would match; only an empty value of strategy 1 (no element,
\* no match, or blank text) lets strategy 2 decide, and only an empty value of
\* both lets strategy 3 decide.
C27_InvalidCandidateBlocks ==
    PostStrategy1.ran =>
        LET v1 == IF PostStrategy1.ok THEN PostStrategy1.value ELSE <<>>
            m2 == SearchOwnerUsername(eu_page.html)
            v2 == IF m2.ok THEN Strip(m2.group) ELSE <<>>
            m3 == SearchUsernameVerified(eu_page.html)
            v3 == IF m3.ok THEN Strip(m3.group) ELSE <<>>
            ret == eu_ret[1]
        IN  /\ ~ret.exc
            /\ (v1 # <<>> /\ ~MatchesHandle(v1))
                  => ret.val = PyStr(v1) /\ Collect({}, ret.val) = {}
            /\ (v1 = <<>> /\ v2 # <<>>) => ret.val = PyStr(v2)
            /\ (v1 = <<>> /\ v2 = <<>>) => ret.val = PyStr(v3)

\* C27 witness: the metadata gave "al ice", which has a space, the page text names
\* the owner "bob", and the call returned "al ice", which adds no handle.
C27_Witness ==
    /\ PostStrategy1.ran /\ PostStrategy1.ok
    /\ PostStrategy1.value = <<"al", " ", "ice">>
    /\ SearchOwnerUsername(eu_page.html).ok
    /\ MatchesHandle(Strip(SearchOwnerUsername(eu_page.html).group))
    /\ eu_ret = <<Ret(PyStr(<<"al", " ", "ice">>))>>
    /\ Collect({}, eu_ret[1].val) = {}

\* C30: a run that has ended wrote the output file if and only if at least one
\* validated handle was collected; the file is written once, after the browser was
\* closed, with one row for each record.
C30_CsvIffHandles ==
    /\ m_pc \in {"exit", "crashed", "done"} => (m_csv # <<>> <=> usernames # {})
    /\ m_csv # <<>> =>
          /\ Len(m_csv) = 1 /\ m_browser = "closed" /\ m_pc = "done"
          /\ m_csv[1] = profile_rows /\ Len(m_csv[1]) = Cardinality(usernames)

(***************************************************************************)
(* save_profiles_to_csv_append (ins_apify_bio.py 289-376).  The file is    *)
(* the sequence of its rows, a row the sequence of its fields as the csv   *)
(* module reads them back.                                                 *)
(***************************************************************************)
\* x or y
Or(x, y) == IF Truthy(x) THEN x ELSE y

\* Lines 304-311: fieldnames, and the row writeheader writes.
CsvHeader ==
    << <<"username">>, <<"url">>, <<"externalUrl">>, <<"postsCount">>,
       <<"followersCount">>, <<"biography">> >>

\* csv.field_size_limit(): the reader raises on a longer field.
FieldSizeLimit == 131072

\* A run of 140000 letters x, as one symbol; every other symbol counts one.
HugeRun == "x*140000"
SymLen(c) == IF c = HugeRun THEN 140000 ELSE 1

RECURSIVE TextLen(_)
TextLen(t) == IF t = <<>> THEN 0 ELSE SymLen(Head(t)) + TextLen(Tail(t))

\* What csv.writer puts in a field, as the reader gives it back: None is the empty
\* field, any other value its str().
CsvField(x) == IF x.t = "none" THEN <<>> ELSE Str(x)

\* Lines 317-328: the usernames of the file.  The reader stops with an error, which
\* is caught, at the first row that holds a field over the limit; the usernames of
\* the rows before it are kept.
ExistingUsernames(exists, rows) ==
    IF ~exists \/ rows = <<>> THEN {}
    ELSE LET bad == {k \in 1..Len(rows) :
                        \E f \in 1..Len(rows[k]) : TextLen(rows[k][f]) > FieldSizeLimit}
             stop == IF bad = {} THEN Len(rows) + 1 ELSE Min(bad)
             cols == {c \in 1..Len(rows[1]) : rows[1][c] = <<"username">>}
         IN  IF stop = 1 \/ cols = {} THEN {}
             ELSE {Strip(rows[k][Max(cols)]) : k \in 2..(stop - 1)} \ {<<>>}

\* Lines 346-372: the row written for an item.
CsvRow(item, username, biography) ==
    LET url == Or(Or(Get(item, "url", PyNone), Get(item, "profileUrl", PyNone)),
                  PyStr(<<>>))
        external_url == Or(Or(Get(item, "externalUrl", PyNone),
                              Get(item, "external_url", PyNone)), PyStr(<<>>))
        posts_count == IF "postsCount" \in DOMAIN item.v
                       THEN Get(item, "postsCount", PyNone)
                       ELSE Get(item, "posts_count", PyStr(<<>>))
        followers_count == IF "followersCount" \in DOMAIN item.v
                           THEN Get(item, "followersCount", PyNone)
                           ELSE Get(item, "followers_count", PyStr(<<>>))
    IN  << username, CsvField(url), CsvField(external_url), CsvField(posts_count),
           CsvField(followers_count), Replace(biography.v, <<"\n">>, <<" ">>) >>

\* Lines 336-373: the loop over the items.  A username or a biography that is true
\* and no string raises AttributeError, which leaves the function with the rows
\* written so far.
RECURSIVE WriteItems(_, _, _)
WriteItems(items, existing, rows) ==
    IF items = <<>> THEN [rows |-> rows, exc |-> FALSE]
    ELSE LET item == Head(items)
             raw == Or(Get(item, "username", PyNone), PyStr(<<>>))
             biography == Or(Or(Get(item, "biography", PyNone), Get(item, "bio", PyNone)),
                             PyStr(<<>>))
         IN  IF raw.t # "str" THEN [rows |-> rows, exc |-> TRUE]
             ELSE IF Strip(raw.v) = <<>> \/ Strip(raw.v) \in existing
                  THEN WriteItems(Tail(items), existing, rows)
             ELSE IF biography.t # "str" THEN [rows |-> rows, exc |-> TRUE]
             ELSE WriteItems(Tail(items), existing \cup {Strip(raw.v)},
                             Append(rows, CsvRow(item, Strip(raw.v), biography)))

\* Lines 289-376: the file after the call, and whether the call raised.
save_profiles_to_csv_append(profiles, exists, rows) ==
    IF profiles = <<>> THEN [exists |-> exists, rows |-> rows, exc |-> FALSE]
    ELSE LET w == WriteItems(profiles, ExistingUsernames(exists, rows),
                             IF exists THEN rows ELSE <<CsvHeader>>)
         IN  [exists |-> TRUE, rows |-> w.rows, exc |-> w.exc]

(***************************************************************************)
(* Specification of save_profiles_to_csv_append: calls on one path that    *)
(* starts out missing.                                                     *)
(***************************************************************************)
MaxBatch == 2
MaxCsvCalls == 3

CsvItems ==
    {PyDict([username |-> PyStr(<<"bob">>)]),
     PyDict([username |-> PyStr(<<" ", "bob", " ">>),
             biography |-> PyStr(<<"Hi", "\n", "all">>)]),
     PyDict([username |-> PyStr(<<"eve">>), biography |-> PyStr(<<HugeRun>>),
             url |-> PyStr(<<"u">>), postsCount |-> PyNum(7)]),
     PyDict([username |-> PyStr(<<"al">>), bio |-> PyStr(<<"Yo">>),
             profileUrl |-> PyStr(<<"p">>), posts_count |-> PyNum(3),
             followersCount |-> PyNone]),
     PyDict([username |-> PyNone, biography |-> PyStr(<<"Hi">>)]),
     PyDict([username |-> PyNum(5)]),
     PyDict([username |-> PyStr(<<"ice">>), biography |-> PyNum(5)])}

InitCsv ==
    /\ csv_exists = FALSE /\ csv_rows = <<>> /\ csv_calls = 0
    /\ cb_bio = PyStr(<<>>) /\ cb_out = <<>>
    /\ pc_text = <<>> /\ pc_ret = <<>>
    /\ HashtagIdle /\ PostIdle /\ ProfileIdle /\ MainIdle /\ TtIdle /\ YtIdle

CsvAppendCall ==
    /\ csv_calls < MaxCsvCalls
    /\ \E profiles \in SeqsUpTo(CsvItems, MaxBatch) :
          LET r == save_profiles_to_csv_append(profiles, csv_exists, csv_rows)
          IN  /\ csv_exists' = r.exists
              /\ csv_rows' = r.rows
    /\ csv_calls' = csv_calls + 1
    /\ UNCHANGED <<cbVars, pcVars, hVars, euVars, spVars, mVars, ttVars, ytVars>>

NextCsv == CsvAppendCall

SpecCsv == InitCsv /\ [][NextCsv]_vars

\* C20: after any calls on a path that starts out missing, the file holds the
\* header row once, as its first row, no two data rows have the same stripped
\* username, and a call never removes or changes a row written before.
C20_HeaderOnceNoDuplicates ==
    /\ [](csv_exists =>
            /\ csv_rows # <<>> /\ csv_rows[1] = CsvHeader
            /\ \A k \in 2..Len(csv_rows) : csv_rows[k] # CsvHeader
            /\ \A i, j \in 2..Len(csv_rows) :
                  Strip(csv_rows[i][1]) = Strip(csv_rows[j][1]) => i = j)
    /\ [][Len(csv_rows) <= Len(csv_rows')
          /\ SubSeq(csv_rows', 1, Len(csv_rows)) = csv_rows]_vars

(***************************************************************************)
(* TT/tt_apify.py: start_run, wait_for_run, fetch_items, append_to_csv and *)
(* the part of main that calls them.  tt_log holds one entry per request   *)
(* or file operation; a poll entry carries the status the platform gave.   *)
(***************************************************************************)
MaxPolls == 3

\* Line 44: the statuses wait_for_run takes as final.
TerminalStatuses == {"SUCCEEDED", "FAILED", "TIMED_OUT", "ABORTED"}

\* The statuses the platform may give, among them some line 44 does not name.
RunStatuses == TerminalStatuses \cup {"READY", "RUNNING", "TIMED-OUT", "ABORTING"}

LogEntry(op, status) == [op |-> op, status |-> status]

\* Lines 85-99: the header row of the output file.
TtHeader == <<"Author", "Text", "Diggs", "Shares", "Plays", "Comments", "Bookmarks",
              "Duration (seconds)", "Music", "Music author", "Music original?",
              "Create Time", "Video url">>

\* Lines 120-135: the keys of the row built for one item.
TtRowKeys == {TtHeader[i] : i \in 1..Len(TtHeader)} \cup {"Author's Avatar"}

\* Lines 62-138: append_to_csv.  An empty list returns before the file is opened.
\* Otherwise the file is opened for appending, the header is written when the file
\* was missing or empty, and csv.DictWriter.writerow raises ValueError for the first
\* row when the row has a key that is not a field name.
append_to_csv(csv, items) ==
    IF items = <<>> THEN [exc |-> FALSE, csv |-> csv]
    ELSE LET file_exists == csv.exists /\ csv.rows # <<>>
             opened == [exists |-> TRUE,
                        rows |-> IF file_exists THEN csv.rows
                                 ELSE Append(csv.rows, TtHeader)]
             extra == TtRowKeys \ {TtHeader[i] : i \in 1..Len(TtHeader)}
         IN  IF extra # {} THEN [exc |-> TRUE, csv |-> opened]
             ELSE [exc |-> FALSE,
                   csv |-> [opened EXCEPT !.rows = opened.rows \o items]]

\* Lines 243-246 with the test of the status left out.
AfterWaitUnchecked(status) == "fetch"

\* Lines 243-246: any status but SUCCEEDED ends the program through sys.exit(1).
AfterWait(status) == IF status # "SUCCEEDED" THEN "exit" ELSE "fetch"

\* The output files the program may find.
TtFiles == {[exists |-> FALSE, rows |-> <<>>],
            [exists |-> TRUE, rows |-> <<>>],
            [exists |-> TRUE, rows |-> <<TtHeader>>]}

\* The item lists the dataset may hold.
TtItems == {<<>>, <<1>>, <<1, 2>>}

InitTT ==
    /\ tt_pc = "start" /\ tt_log = <<>> /\ tt_ret = <<>> /\ tt_exit = <<>>
    /\ tt_csv \in TtFiles
    /\ cb_bio = PyStr(<<>>) /\ cb_out = <<>>
    /\ pc_text = <<>> /\ pc_ret = <<>>
    /\ HashtagIdle /\ PostIdle /\ ProfileIdle /\ MainIdle /\ CsvIdle /\ YtIdle

\* Lines 26-32 and 239: start_run.  An HTTP error status or a body without the two
\* ids raises, and main does not catch it.
TtStart ==
    /\ tt_pc = "start"
    /\ \E outcome \in {"ok", "http_error", "key_error"} :
          /\ tt_log' = Append(tt_log, LogEntry("start", outcome))
          /\ tt_pc' = IF outcome = "ok" THEN "poll" ELSE "crashed"
          /\ tt_exit' = IF outcome = "ok" THEN tt_exit ELSE <<1>>
    /\ UNCHANGED <<tt_ret, tt_csv>>
    /\ UNCHANGED <<cbVars, pcVars, hVars, euVars, spVars, mVars, csvVars, ytVars>>

\* Lines 38-46: one turn of the loop of wait_for_run.  A final status is returned,
\* any other status is followed by the pause and another request.
TtPoll ==
    /\ tt_pc = "poll"
    /\ Len(tt_log) <= MaxPolls
    /\ \E status \in RunStatuses \cup {"http_error"} :
          /\ tt_log' = Append(tt_log, LogEntry("poll", status))
          /\ tt_pc' = IF status = "http_error" THEN "crashed"
                      ELSE IF status \in TerminalStatuses THEN "waited"
                      ELSE "poll"
          /\ tt_ret' = IF status \in TerminalStatuses THEN <<status>> ELSE tt_ret
          /\ tt_exit' = IF status = "http_error" THEN <<1>> ELSE tt_exit
    /\ UNCHANGED tt_csv
    /\ UNCHANGED <<cbVars, pcVars, hVars, euVars, spVars, mVars, csvVars, ytVars>>

\* Lines 243-246.
TtWaited ==
    /\ tt_pc = "waited"
    /\ tt_pc' = AfterWait(tt_ret[1])
    /\ tt_exit' = IF tt_pc' = "exit" THEN <<1>> ELSE tt_exit
    /\ UNCHANGED <<tt_log, tt_ret, tt_csv>>
    /\ UNCHANGED <<cbVars, pcVars, hVars, euVars, spVars, mVars, csvVars, ytVars>>

\* Lines 248-250: fetch_items and append_to_csv.  An HTTP error of the download
\* leaves main before append_to_csv; an error of append_to_csv leaves main with
\* what was written to the file before it.
TtFetch ==
    /\ tt_pc = "fetch"
    /\ \E outcome \in {"ok", "http_error"}, items \in TtItems :
          LET r == append_to_csv(tt_csv, items)
          IN  IF outcome = "http_error"
              THEN /\ tt_log' = Append(tt_log, LogEntry("fetch", outcome))
                   /\ tt_pc' = "crashed" /\ tt_exit' = <<1>>
                   /\ tt_csv' = tt_csv
              ELSE /\ tt_log' = tt_log \o <<LogEntry("fetch", outcome),
                                            LogEntry("append", IF r.exc THEN "value_error"
                                                               ELSE "ok")>>
                   /\ tt_pc' = IF r.exc THEN "crashed" ELSE "done"
                   /\ tt_exit' = IF r.exc THEN <<1>> ELSE <<0>>
                   /\ tt_csv' = r.csv
    /\ UNCHANGED tt_ret
    /\ UNCHANGED <<cbVars, pcVars, hVars, euVars, spVars, mVars, csvVars, ytVars>>

NextTT ==
    \/ TtStart
    \/ TtPoll
    \/ TtWaited
    \/ TtFetch

SpecTT == InitTT /\ [][NextTT]_vars

\* C21: the requests come in the order start, polls, fetch, append; each poll but
\* the last saw a status that is not final; wait_for_run returns only one of the
\* four final statuses, the one of the last poll; the download and the file
\* operation come only after a poll that saw SUCCEEDED; a run that returned any
\* other final status ends with exit code 1, and the file is changed only in a
\* step that downloads after SUCCEEDED.
C21_StartPollFetchOrder ==
    /\ [](/\ \A i \in 1..Len(tt_log) :
               /\ tt_log[i].op = "start" <=> i = 1
               /\ tt_log[i].op = "poll" /\ i < Len(tt_log) /\ tt_log[i + 1].op = "poll"
                     => tt_log[i].status \notin TerminalStatuses
               /\ tt_log[i].op = "fetch"
                     => /\ i > 1 /\ tt_log[i - 1] = LogEntry("poll", "SUCCEEDED")
                        /\ tt_ret = <<"SUCCEEDED">>
               /\ tt_log[i].op = "append" => i > 1 /\ tt_log[i - 1].op = "fetch"
               /\ tt_log[i].op = "poll" => i > 1 /\ tt_log[i - 1].status \in
                                                     {"ok"} \cup RunStatuses
          /\ tt_ret # <<>> =>
               /\ tt_ret[1] \in TerminalStatuses
               /\ \E i \in 1..Len(tt_log) :
                     /\ tt_log[i] = LogEntry("poll", tt_ret[1])
                     /\ \A k \in i + 1..Len(tt_log) : tt_log[k].op # "poll"
          /\ tt_ret # <<>> /\ tt_ret # <<"SUCCEEDED">> /\ tt_pc # "waited" =>
               /\ tt_pc = "exit" /\ tt_exit = <<1>>
               /\ \A i \in 1..Len(tt_log) : tt_log[i].op \in {"start", "poll"})
    /\ [][tt_csv' # tt_csv =>
             /\ tt_pc = "fetch" /\ tt_ret = <<"SUCCEEDED">>
             /\ Len(tt_log') = Len(tt_log) + 2]_vars

\* A run that was polled three times, failed and ended with exit code 1.
C21_Witness ==
    /\ tt_pc = "exit" /\ tt_ret = <<"FAILED">> /\ tt_exit = <<1>>
    /\ Len(tt_log) = 4 /\ tt_log[3] = LogEntry("poll", "TIMED-OUT")

(***************************************************************************)
(* YT/tuberfinder.py: load_existing_channel_names and                      *)
(* save_csv_append_unique, called on one path that starts out missing.     *)
(* The file is the sequence of its rows, header first.                     *)
(***************************************************************************)
\* Lines 242-251: fieldnames, and the row writeheader writes.
YtHeader ==
    << <<"Date">>, <<"channel_name">>, <<"subscribers">>, <<"last_video_date">>,
       <<"last_video_views">>, <<"country">>, <<"url">>, <<"description_about">> >>

\* Line 239: the date of the run.
RunDate == <<"2025-11-21">>

\* Lines 214-231: the channel names of the file.  A name that is empty is not
\* kept, and a name is kept as it was read, with its spaces.  The reader stops with
\* an error, which is caught, at the first row that holds a field over the limit;
\* the names of the rows before it are kept.
load_existing_channel_names(exists, rows) ==
    IF ~exists \/ rows = <<>> THEN {}
    ELSE LET bad == {k \in 1..Len(rows) :
                        \E f \in 1..Len(rows[k]) : TextLen(rows[k][f]) > FieldSizeLimit}
             stop == IF bad = {} THEN Len(rows) + 1 ELSE Min(bad)
             cols == {c \in 1..Len(rows[1]) : rows[1][c] = <<"channel_name">>}
         IN  IF stop = 1 \/ cols = {} THEN {}
             ELSE {rows[k][Max(cols)] : k \in 2..(stop - 1)} \ {<<>>}

\* Lines 272-282: the row written for a channel.
YtRow(ch) ==
    << RunDate, CsvField(ch.channel_name), CsvField(ch.subscribers),
       CsvField(ch.last_video_date), CsvField(ch.last_video_views),
       CsvField(ch.country), CsvField(ch.url), CsvField(ch.description_about) >>

\* Line 257: the channels whose name is not among the names read from the file;
\* the names of the batch itself are not looked at.
NewChannels(channels, existing_names) ==
    SelectSeq(channels, LAMBDA ch : ch.channel_name.v \notin existing_names)

\* Lines 234-284: the file after the call.
save_csv_append_unique(exists, rows, channels) ==
    LET file_exists == exists
        existing_names == load_existing_channel_names(exists, rows)
        new_channels == NewChannels(channels, existing_names)
    IN  IF new_channels = <<>> THEN [exists |-> exists, rows |-> rows]
        ELSE [exists |-> TRUE,
              rows |-> (IF file_exists THEN rows ELSE <<YtHeader>>)
                       \o [k \in 1..Len(new_channels) |-> YtRow(new_channels[k])]]

\* A channel as get_channel_details builds it (lines 92-101).
Channel(name, url, about) ==
    [channel_name |-> PyStr(name), subscribers |-> PyNum(5), last_video_date |-> PyNone,
     last_video_views |-> PyNone, country |-> PyStr(<<"US">>), url |-> PyStr(url),
     description_about |-> PyStr(about)]

\* The channels of the model: two channels that share a name, one with another
\* name, one whose title is empty, and one whose description is over the limit.
YtChannels ==
    {Channel(<<"A">>, <<"u", "1">>, <<"Hi">>),
     Channel(<<"A">>, <<"u", "2">>, <<>>),
     Channel(<<"B">>, <<"u", "3">>, <<"Yo">>),
     Channel(<<>>, <<"u", "4">>, <<>>),
     Channel(<<"C">>, <<"u", "5">>, <<HugeRun>>)}

InitYt ==
    /\ yt_exists = FALSE /\ yt_rows = <<>> /\ yt_calls = 0
    /\ cb_bio = PyStr(<<>>) /\ cb_out = <<>>
    /\ pc_text = <<>> /\ pc_ret = <<>>
    /\ HashtagIdle /\ PostIdle /\ ProfileIdle /\ MainIdle /\ CsvIdle /\ TtIdle

YtAppendCall ==
    /\ yt_calls < MaxCsvCalls
    /\ \E channels \in SeqsUpTo(YtChannels, MaxBatch) :
          LET r == save_csv_append_unique(yt_exists, yt_rows, channels)
          IN  /\ yt_exists' = r.exists
              /\ yt_rows' = r.rows
    /\ yt_calls' = yt_calls + 1
    /\ UNCHANGED <<cbVars, pcVars, hVars, euVars, spVars, mVars, csvVars, ttVars>>

NextYt == YtAppendCall

SpecYt == InitYt /\ [][NextYt]_vars

\* C26: after any calls on a path that starts out missing, the file holds the
\* header row once, as its first row, and no two data rows have the same
\* channel_name.
C26_HeaderOnceUniqueNames ==
    yt_exists =>
        /\ yt_rows # <<>> /\ yt_rows[1] = YtHeader
        /\ \A k \in 2..Len(yt_rows) : yt_rows[k] # YtHeader
        /\ \A i, j \in 2..Len(yt_rows) : yt_rows[i][2] = yt_rows[j][2] => i = j

====
